---- MODULE Spec2Model ----
(***************************************************************************)
(* Model of the repoup RPM repository transaction engine.                  *)
(*                                                                         *)
(* The bucket is an object store (key -> content).  A writer opens a       *)
(* transaction on the repository (Repository.__aenter__ / _load), applies  *)
(* add / remove operations, and leaves the scope (RepositoryBase.__aexit__ *)
(* : _save, pending deletions, CDN invalidation, release).                 *)
(*                                                                         *)
(* Abstractions:                                                           *)
(*  - a package file is identified by its file name; its content is a      *)
(*    checksum token ("orig", or "signed" after rpm --addsign);            *)
(*  - a metadata file (primary/filelists/other, XML and SQLite) holds the  *)
(*    sequence of package records written to it, its name carries the      *)
(*    digest of that content (RepomdRecord.rename_file);                   *)
(*  - the digest is collision free: Digest(c) wraps the content;           *)
(*  - a relative path (file name, repodata/...) is identified with the     *)
(*    bucket key StorageBase.join gives it.                                *)
(***************************************************************************)
EXTENDS Integers, Sequences, FiniteSets, Bags, TLC

\* Bound: number of add/remove calls in one behaviour.
MaxOps == 2
\* Bound: number of transactions opened in one behaviour.
MaxTx == 2
\* Bound: number of Throttling responses the CDN gives to one invalidation.
MaxThrottle == 2
\* Bound: length of the part of a file name before its extension.
MaxNameLen == 7

\* Package files.  "a" is named <NVRA>.rpm, "e" is named <NEVRA>.rpm
\* (name-epoch:version-release.arch.rpm); Repository.add accepts both forms.
NvraFiles == {"a"}
NevraFiles == {"e"}
Files == NvraFiles \cup NevraFiles
\* A package file whose name matches neither form ("x": a renamed package).
BadFiles == {"x"}

\* Writers (transactions that may be open at the same time).
Writers == {1, 2}

NoKey == "nokey"
GpgKey == "K"

\* _PKG_METADATA (rpm.py:25) and the records _save_record emits for each.
PkgMetadata == {"primary", "other", "filelists"}
DbOf(ty) == CASE ty = "primary" -> "primary_db"
              [] ty = "other" -> "other_db"
              [] ty = "filelists" -> "filelists_db"
RecordTypes == PkgMetadata \cup {DbOf(ty) : ty \in PkgMetadata}
\* Keys of Repository._pkgs (rpm.py:95-97).
IndexTypes == PkgMetadata \cup {"updateinfo"}

----
\* Bucket keys.  Every key is a record of the same shape.
PkgKey(loc, f) == [kind |-> loc, name |-> <<f, "rpm">>, hash |-> <<>>]
\* storage.join(filename): the repository destination of a package file.
DstKey(f) == PkgKey("dst", f)
\* A key outside the repository directory (an upload area).
SrcKey(f) == PkgKey("src", f)
\* _REPOMD (rpm.py:27) and its detached signature.
REPOMD == [kind |-> "top", name |-> <<"repomd", "xml">>, hash |-> <<>>]
REPOMD_ASC == [kind |-> "top", name |-> <<"repomd", "xml.asc">>, hash |-> <<>>]

\* ContentStat / RepomdRecord.fill: the checksum of a content.
Digest(c) == <<"sha256", c>>
\* ContentStat / RepomdRecord.fill: the size of a content (its package count).
SizeOf(c) == Len(c.pkgs)

EmptyFn == [k \in {} |-> k]
\* Variant: the upload is lost.
Put_Lost(b, k, c) == b
\* Variant: an object that exists is not overwritten.
Put_KeepsExisting(b, k, c) ==
    [x \in (DOMAIN b) \cup {k} |-> IF x \in DOMAIN b THEN b[x] ELSE c]
\* put_file / put_object: the key now holds the content.
Put(b, k, c) == [x \in (DOMAIN b) \cup {k} |-> IF x = k THEN c ELSE b[x]]
\* head_object: the status of the request for a key.
HeadObject(b, k) == IF k \in DOMAIN b THEN "200" ELSE "404"
\* delete_object: the key holds nothing afterwards.
DeleteObject(b, k) == [x \in (DOMAIN b) \ {k} |-> b[x]]
\* Variant: the error of head_object on a missing key is not caught.
RemoveRaises_OnMissing(b, k) == HeadObject(b, k) # "200"
\* Storage.remove raises: a ClientError of head_object is raised again unless
\* its code is NoSuchKey or 404.
RemoveRaises(b, k) == HeadObject(b, k) \notin {"200", "404"}
\* Storage.remove: head_object first, delete_object only when the key exists.
StorageRemove(b, k) == IF HeadObject(b, k) = "404" THEN b ELSE DeleteObject(b, k)
\* remove of each path of a set, one after the other.
RECURSIVE RemoveAll(_, _)
RemoveAll(b, paths) ==
    IF paths = {} THEN b
    ELSE LET k == CHOOSE x \in paths : TRUE
         IN RemoveAll(StorageRemove(b, k), paths \ {k})

----
\* Python dict with insertion order: a sequence of [key, val] without
\* duplicate keys.
DictKeys(d) == {d[i].key : i \in DOMAIN d}
\* Variant: plain assignment, an entry under the key is overwritten.
DictSetDefault_Overwrites(d, k, v) ==
    IF k \in DictKeys(d)
    THEN [i \in DOMAIN d |-> IF d[i].key = k THEN [key |-> k, val |-> v] ELSE d[i]]
    ELSE Append(d, [key |-> k, val |-> v])
DictSetDefault(d, k, v) ==
    IF k \in DictKeys(d) THEN d ELSE Append(d, [key |-> k, val |-> v])
DictAssign(d, k, v) ==
    IF k \in DictKeys(d)
    THEN [i \in DOMAIN d |-> IF d[i].key = k THEN [key |-> k, val |-> v] ELSE d[i]]
    ELSE Append(d, [key |-> k, val |-> v])
DictDel(d, k) ==
    LET keep(e) == e.key # k IN SelectSeq(d, keep)
DictValues(d) == [i \in DOMAIN d |-> d[i].val]

\* Package identity strings.
\* pkg.nvra() and pkg.nevra() of createrepo_c, and splitext(basename(path))[0].
Nvra(f) == <<"nvra", f>>
Nevra(f) == <<"nevra", f>>
\* Variant: the name of the file is taken for the NVRA of the package.
Stem_Trusted(f) == Nvra(f)
Stem(f) == IF f \in NevraFiles THEN Nevra(f)
           ELSE IF f \in NvraFiles THEN Nvra(f) ELSE <<"stem", f>>

----
VARIABLES
    bucket,   \* the object store: key -> content
    tx,       \* tx[w]: the transaction object of writer w
    ntx,      \* observer: number of transactions opened so far
    nops      \* observer: number of add/remove calls made so far

vars == <<bucket, tx, ntx, nops>>

\* Observer record of the last add/remove call: the file, whether its package
\* was in the in-memory index before the call, whether the call was the first
\* of the transaction to name the file, the exception raised, and whether the
\* bucket is the same after the call.
NoOp == [kind |-> "none", file |-> "", indexed |-> FALSE, first |-> FALSE,
         raised |-> "none", same |-> TRUE]

\* An event record: its name, split at the colons ("ObjectCreated:Put" is
\* <<"ObjectCreated", "Put">>), and the key of its object.  NoEvent: no event
\* is being handled.
NoEvent == [name |-> <<>>, key |-> [kind |-> "none", name |-> <<>>, hash |-> <<>>]]

\* No top-level index (the content of repomd.xml when none was produced).
NoIndex == [records |-> <<>>]
\* BASEURL (rpm.py:36): unset, or a template, split at its variables.
NoBaseUrl == [set |-> FALSE, template |-> <<>>]
\* Observer record of a find_repository call: its inputs, the exception it
\* raised and the URL it returned.
NoFound == [asked |-> FALSE, baseurl |-> NoBaseUrl, filename |-> <<>>,
            raised |-> "none", url |-> <<>>]

\* RepositoryBase.__init__ and Repository.__init__: a fresh transaction object.
InitTx ==
    [pc |-> "idle",
     event |-> NoEvent,                       \* the event the handler is serving
     ignored |-> FALSE,                       \* observer: the last event was ignored
     found |-> NoFound,                       \* observer: last find_repository call
     gpg |-> NoKey,                           \* _gpg_key
     dbz |-> TRUE,                            \* _db_compression # NO_COMPRESSION
     gpg_clear |-> FALSE,                     \* _gpg_clear
     tmp |-> FALSE,                           \* the scratch directory exists
     storage |-> FALSE,                       \* the storage driver is open
     keys |-> FALSE,                          \* the key is in the GPG keyring
     pkgs |-> [ty \in IndexTypes |-> <<>>],   \* _pkgs
     stanzas |-> <<>>,                        \* DEB: the index, keyed by Package
     contents |-> [table |-> <<>>, before |-> <<>>, name |-> "", files |-> {},
                   returned |-> FALSE, calls |-> 0],  \* DEB: observer of the Contents table
     outdated |-> {},                         \* _outdated_files
     records |-> {},                          \* _load: records (type, path)
     modified |-> {},                         \* modified
     removed |-> {},                          \* removed
     changed |-> EmptyBag,                    \* _changed_paths (a list)
     pending |-> EmptyFn,                     \* uploads started by _save
     exc |-> "none",                          \* exception raised by the last call
     batch |-> EmptyBag,                      \* paths given to invalidate_cache
     invalidated |-> FALSE,
     dist |-> FALSE,                          \* _DISTRIBUTION_ID is set
     resp |-> [code |-> "none", message |-> ""],  \* last answer of the CDN
     \* observer fields
     attempts |-> 0,         \* create_invalidation requests sent
     throttled |-> 0,        \* Throttling answers received
     accepted |-> 0,         \* invalidation batches the CDN accepted
     prevRefs |-> {},        \* files the loaded top-level index referenced
     loadedIndex |-> FALSE,  \* a top-level index was found at open
     atOpen |-> {},          \* packages the top-level index listed at open
     expected |-> {},        \* atOpen with the operations applied in order
     written |-> {},         \* keys this transaction uploaded
     touched |-> {},         \* packages named by an operation so far
     called |-> FALSE,       \* add or remove was called in this transaction
     distinct |-> TRUE,      \* no package was named twice
     deleted |-> {},         \* keys this transaction deleted from the bucket
     published |-> FALSE,    \* _save wrote a new top-level index
     wrote |-> NoIndex,      \* the top-level index _save produced
     lastOp |-> NoOp]

\* The package files users uploaded before the first event is handled
\* (conftest.py StorageHelper.put): any files, in an upload area ("src") or
\* directly in the repository directory ("dst").  There is no repository yet.
Uploads == {PkgKey(loc, f) : loc \in {"src", "dst"}, f \in Files}

Init ==
    /\ \E present \in SUBSET Uploads : bucket = [k \in present |-> "orig"]
    /\ tx = [w \in Writers |-> InitTx]
    /\ ntx = 0
    /\ nops = 0

----
\* Metadata files.
MdExt(ty, dbz) ==
    IF ty \in PkgMetadata THEN "xml.gz" ELSE IF dbz THEN "sqlite.bz2" ELSE "sqlite"
BaseOf(ty) == CHOOSE b \in PkgMetadata : ty = b \/ ty = DbOf(b)
\* _save_record: the content written for one record type.
MdContent(t, ty) == [fmt |-> MdExt(ty, t.dbz), pkgs |-> DictValues(t.pkgs[BaseOf(ty)])]
\* _set_record: fill the checksum, rename the file after it; location_href.
MdKey(t, ty) ==
    [kind |-> "md", name |-> <<ty, MdExt(ty, t.dbz)>>, hash |-> Digest(MdContent(t, ty))]
\* repomd.xml_dump(): one record per type with location, size and checksum.
RepomdContent(t) ==
    [records |-> [ty \in RecordTypes |->
        [href |-> MdKey(t, ty), size |-> SizeOf(MdContent(t, ty)),
         checksum |-> Digest(MdContent(t, ty))]]]
\* gpg --detach-sign --armor: a signature by a key over a content.
Signature(key, content) == [by |-> key, over |-> content]

\* xml_parse_<type> with pkgcb=add_pkg: packages[pkg.nvra()] = pkg, in file order.
RECURSIVE LoadRecord(_, _)
LoadRecord(d, content) ==
    IF content = <<>> THEN d
    ELSE LoadRecord(DictAssign(d, Nvra(Head(content).file), Head(content)),
                    Tail(content))

\* Observer: the package files the index published in bucket b lists in its
\* metadata file of type ty (read through repomd.xml, as a client does).
ListedIn(b, ty) ==
    IF REPOMD \in DOMAIN b /\ b[REPOMD].records[ty].href \in DOMAIN b
    THEN LET c == b[b[REPOMD].records[ty].href].pkgs
         IN {c[i].file : i \in DOMAIN c}
    ELSE {}
Listed(b) == ListedIn(b, "primary")

\* RepositoryBase.__aenter__ with Repository._load up to the parse of repomd.xml.
Enter(w, key, dbz, clear) ==
    /\ tx[w].pc = "idle"
    /\ ntx < MaxTx
    /\ ntx' = ntx + 1
    /\ LET t0 == [InitTx EXCEPT !.event = tx[w].event,
                                !.gpg = key, !.dbz = dbz, !.gpg_clear = clear,
                                !.tmp = TRUE, !.storage = TRUE,
                                !.keys = (key # NoKey)]
       IN IF REPOMD \notin DOMAIN bucket
          THEN tx' = [tx EXCEPT ![w] = [t0 EXCEPT !.pc = "body"]]
          ELSE LET recs == bucket[REPOMD].records
                   refs == {recs[ty].href : ty \in RecordTypes}
               IN tx' = [tx EXCEPT ![w] =
                     [t0 EXCEPT !.pc = "loading",
                                !.outdated = refs,
                                !.records = {<<ty, recs[ty].href>> : ty \in PkgMetadata},
                                !.prevRefs = refs,
                                !.loadedIndex = TRUE,
                                !.atOpen = Listed(bucket),
                                !.expected = Listed(bucket)]]
    /\ UNCHANGED <<bucket, nops>>

\* A transaction opened with the default gpg_clear=False.
Open(w, key, dbz) == Enter(w, key, dbz, FALSE)

\* Repository._load: download the XML files and parse them (_load_record).
LoadRecords(w) ==
    /\ tx[w].pc = "loading"
    /\ \A r \in tx[w].records : r[2] \in DOMAIN bucket
    /\ LET path(ty) == (CHOOSE r \in tx[w].records : r[1] = ty)[2]
           loaded == [ty \in IndexTypes |->
                        IF ty \in PkgMetadata
                        THEN LoadRecord(<<>>, bucket[path(ty)].pkgs)
                        ELSE <<>>]
       IN tx' = [tx EXCEPT ![w] =
                   [@ EXCEPT !.pc = "body", !.pkgs = loaded]]
    /\ UNCHANGED <<bucket, ntx, nops>>

----
\* _mark_as_modified(*paths, invalidate): add to modified and, when invalidate,
\* to the CDN invalidation list.
MarkAsModified(t, paths, invalidate) ==
    [t EXCEPT !.modified = @ \cup paths,
              !.changed = IF invalidate THEN @ (+) SetToBag(paths) ELSE @]
\* _mark_for_deletion(*paths): add to removed and to the CDN invalidation list.
MarkForDeletion(t, paths) ==
    [t EXCEPT !.removed = @ \cup paths,
              !.changed = @ (+) SetToBag(paths)]

\* _sign_pkg: rpm --addsign rewrites the package when a key is configured.
SignPkg(t, sum) == IF t.gpg = NoKey THEN sum ELSE "signed"


\* Observer: the package of file f is in the in-memory index.
WasIndexed(t, f) == Nvra(f) \in DictKeys(t.pkgs["primary"])

\* Observer bookkeeping common to add and remove.
Observe(t, kind, f, indexed, raised, same) ==
    [t EXCEPT !.lastOp = [kind |-> kind, file |-> f, indexed |-> indexed,
                          first |-> f \notin t.touched,
                          raised |-> raised, same |-> same],
              !.distinct = @ /\ f \notin t.touched,
              !.called = TRUE,
              !.touched = @ \cup {f}]

\* Repository.add(path, remove_source) for the file f stored at loc.
Add(w, f, loc, remove_source) ==
    /\ tx[w].pc = "body"
    /\ nops < MaxOps
    /\ nops' = nops + 1
    /\ LET t == tx[w]
           path == PkgKey(loc, f)
           dst_path == DstKey(f)
           pkg_name == Stem(f)
           was == WasIndexed(t, f)
       IN IF pkg_name \in DictKeys(t.pkgs["primary"])
          THEN \* already present: drop a stray source, PackageAlreadyExists
               LET b1 == IF path # dst_path THEN StorageRemove(bucket, path)
                         ELSE bucket
                   raised == IF path # dst_path /\ RemoveRaises(bucket, path)
                             THEN "ClientError" ELSE "PackageAlreadyExists"
               IN /\ bucket' = b1
                  /\ tx' = [tx EXCEPT ![w] =
                       [(Observe(t, "add", f, was, raised, b1 = bucket))
                          EXCEPT !.deleted = @ \cup ((DOMAIN bucket) \ (DOMAIN b1))]]
                  /\ UNCHANGED ntx
          ELSE IF path \notin DOMAIN bucket
          THEN \* get_file: PackageNotFound
               /\ tx' = [tx EXCEPT ![w] =
                    (Observe(t, "add", f, was, "PackageNotFound", TRUE))]
               /\ UNCHANGED <<bucket, ntx>>
          ELSE IF ~(pkg_name = Nvra(f) \/ pkg_name = Nevra(f))
          THEN \* the file name matches neither NVRA nor NEVRA
               /\ tx' = [tx EXCEPT ![w] =
                    (Observe(t, "add", f, was, "InvalidPackage", TRUE))]
               /\ UNCHANGED <<bucket, ntx>>
          ELSE LET signed == t.gpg # NoKey
                   pkg == [file |-> f, sum |-> SignPkg(t, bucket[path])]
                   b1 == IF signed \/ path # dst_path
                         THEN Put(bucket, dst_path, pkg.sum) ELSE bucket
                   b2 == IF remove_source /\ path # dst_path
                         THEN StorageRemove(b1, path) ELSE b1
                   t1 == [t EXCEPT !.pkgs = [ty \in IndexTypes |->
                                     DictSetDefault(t.pkgs[ty], Nvra(f), pkg)]]
                   t2 == MarkAsModified(t1, {dst_path}, FALSE)
               IN /\ bucket' = b2
                  /\ tx' = [tx EXCEPT ![w] =
                       [(Observe(t2, "add", f, was, "none", b2 = bucket))
                          EXCEPT !.expected = @ \cup {f},
                                 !.written = @ \cup (IF signed \/ path # dst_path
                                                     THEN {dst_path} ELSE {}),
                                 !.deleted = @ \cup ((DOMAIN bucket) \ (DOMAIN b2))]]
                  /\ UNCHANGED ntx

\* Repository.remove(filename) for the file f.
Remove(w, f) ==
    /\ tx[w].pc = "body"
    /\ nops < MaxOps
    /\ nops' = nops + 1
    /\ LET t == tx[w]
           nvra == Stem(f)
           t1 == [t EXCEPT !.pkgs = [ty \in IndexTypes |-> DictDel(t.pkgs[ty], nvra)]]
           t2 == MarkForDeletion(t1, {DstKey(f)})
       IN tx' = [tx EXCEPT ![w] =
                   [(Observe(t2, "remove", f, WasIndexed(t, f), "none", TRUE))
                      EXCEPT !.expected = @ \ {f}]]
    /\ UNCHANGED <<bucket, ntx>>

\* The body of the scope ends, normally or by the exception the last
\* operation raised; __aexit__ starts.
Leave(w) ==
    /\ tx[w].pc = "body"
    /\ tx' = [tx EXCEPT ![w] = [@ EXCEPT !.pc = "exit", !.exc = tx[w].lastOp.raised]]
    /\ UNCHANGED <<bucket, ntx, nops>>

----
\* Variant: a metadata file without a package record is not uploaded.
KeptFiles_SkipsEmptyFiles(produced, outdated) ==
    {k \in produced \ outdated : k.hash[2].pkgs # <<>>}
\* Variant: every produced file is uploaded, also under an unchanged name.
KeptFiles_All(produced, outdated) == produced
\* _save (rpm.py:217-221): a produced file that has the name of a file of the
\* previous index is neither uploaded ...
KeptFiles(produced, outdated) == produced \ outdated
\* Variant: the skipped file is left in the outdated set.
StillOutdated_KeepsSkipped(produced, outdated) == outdated
\* Variant: the outdated set is emptied when a file is skipped.
StillOutdated_Cleared(produced, outdated) ==
    IF produced \cap outdated # {} THEN {} ELSE outdated
\* Variant: the produced files join the outdated set.
StillOutdated_WithProduced(produced, outdated) == outdated \cup produced
\* Variant: only the database files are taken out of the outdated set.
StillOutdated_DbOnly(produced, outdated) ==
    outdated \ {k \in produced : k.name[1] \notin PkgMetadata}
\* ... nor outdated.
StillOutdated(produced, outdated) == outdated \ produced

\* Variant: _save without its early return; the top-level index is written
\* again when no metadata file changed.
Save_AlwaysPublishes(w) ==
    /\ tx[w].pc = "exit"
    /\ LET t == tx[w]
           produced == {MdKey(t, ty) : ty \in RecordTypes}
           metadata_files == KeptFiles(produced, t.outdated)
           outdated == StillOutdated(produced, t.outdated)
           content(k) == IF k = REPOMD THEN RepomdContent(t)
                         ELSE IF k = REPOMD_ASC
                         THEN Signature(t.gpg, RepomdContent(t))
                         ELSE MdContent(t, CHOOSE ty \in RecordTypes : MdKey(t, ty) = k)
           uploads == metadata_files \cup {REPOMD}
                      \cup (IF t.gpg = NoKey THEN {} ELSE {REPOMD_ASC})
           t1 == [t EXCEPT !.outdated = outdated, !.lastOp = NoOp, !.touched = {},
                           !.records = {},
                           !.pkgs = [ty \in IndexTypes |-> <<>>]]
           t2 == MarkAsModified(t1, {REPOMD}, TRUE)
           t3 == MarkAsModified(t2, metadata_files, FALSE)
           t4 == MarkForDeletion(t3, outdated)
       IN tx' = [tx EXCEPT ![w] =
                   [t4 EXCEPT !.pc = "publishing",
                              !.published = TRUE,
                              !.wrote = RepomdContent(t),
                              !.pending = [k \in uploads |-> content(k)]]]
    /\ UNCHANGED <<bucket, ntx, nops>>
\* Repository._save, up to the start of the uploads (rpm.py:208-233).
Save(w) ==
    /\ tx[w].pc = "exit"
    /\ LET t == tx[w]
           produced == {MdKey(t, ty) : ty \in RecordTypes}
           \* same name as a file of the previous index: no change
           metadata_files == KeptFiles(produced, t.outdated)
           outdated == StillOutdated(produced, t.outdated)
           content(k) == IF k = REPOMD THEN RepomdContent(t)
                         ELSE IF k = REPOMD_ASC
                         THEN Signature(t.gpg, RepomdContent(t))
                         ELSE MdContent(t, CHOOSE ty \in RecordTypes : MdKey(t, ty) = k)
           uploads == metadata_files \cup {REPOMD}
                      \cup (IF t.gpg = NoKey THEN {} ELSE {REPOMD_ASC})
           t1 == [t EXCEPT !.outdated = outdated, !.lastOp = NoOp, !.touched = {},
                           !.records = {},
                           !.pkgs = [ty \in IndexTypes |-> <<>>]]
       IN IF metadata_files = {}
          THEN tx' = [tx EXCEPT ![w] =
                        [t1 EXCEPT !.pc = "deleting"]]
          ELSE LET t2 == MarkAsModified(t1, {REPOMD}, TRUE)
                   t3 == MarkAsModified(t2, metadata_files, FALSE)
                   t4 == MarkForDeletion(t3, outdated)
               IN tx' = [tx EXCEPT ![w] =
                     [t4 EXCEPT !.pc = "publishing",
                                !.published = TRUE,
                                !.wrote = RepomdContent(t),
                                !.pending = [k \in uploads |-> content(k)]]]
    /\ UNCHANGED <<bucket, ntx, nops>>

\* The order in which _save starts the uploads of the metadata files
\* (metadata_files: db then xml, for each type of _PKG_METADATA).
ListOrder(k) ==
    CASE k.name[1] = "primary_db" -> 1 [] k.name[1] = "primary" -> 2
      [] k.name[1] = "other_db" -> 3 [] k.name[1] = "other" -> 4
      [] k.name[1] = "filelists_db" -> 5 [] k.name[1] = "filelists" -> 6
      [] OTHER -> 0

\* The uploads of the gather of _save that may complete next.  The index and
\* its signature complete at any point; the metadata files are taken in the
\* order they were started (they are interchangeable for a reader: what
\* matters is whether the index is visible before one of them).
MayComplete(pending) ==
    {k \in DOMAIN pending :
        k.kind = "md" =>
           \A x \in DOMAIN pending : x.kind = "md" => ListOrder(k) <= ListOrder(x)}

\* Variant: _save does not wait for its uploads; the first one that
\* completes lets the scope exit go on.
PutOne_NotAwaited(w, k) ==
    /\ tx[w].pc = "publishing"
    /\ k \in MayComplete(tx[w].pending)
    /\ bucket' = Put(bucket, k, tx[w].pending[k])
    /\ LET rest == [x \in (DOMAIN tx[w].pending) \ {k} |-> tx[w].pending[x]]
       IN tx' = [tx EXCEPT ![w] =
                   [@ EXCEPT !.pending = rest,
                             !.written = @ \cup {k},
                             !.pc = "deleting"]]
    /\ UNCHANGED <<ntx, nops>>
\* One upload of the gather of _save completes (put_file, or the put_file at
\* the end of _sign_asc).
PutOne(w, k) ==
    /\ tx[w].pc = "publishing"
    /\ k \in MayComplete(tx[w].pending)
    /\ bucket' = Put(bucket, k, tx[w].pending[k])
    /\ LET rest == [x \in (DOMAIN tx[w].pending) \ {k} |-> tx[w].pending[x]]
       IN tx' = [tx EXCEPT ![w] =
                   [@ EXCEPT !.pending = rest,
                             !.written = @ \cup {k},
                             !.pc = IF DOMAIN rest = {} THEN "deleting" ELSE @]]
    /\ UNCHANGED <<ntx, nops>>

\* Scope exit: the pending deletions of the removed set are issued.
DeleteRemoved(w) ==
    /\ tx[w].pc = "deleting"
    /\ LET b1 == RemoveAll(bucket, tx[w].removed)
       IN /\ bucket' = b1
          /\ tx' = [tx EXCEPT ![w] =
                      [@ EXCEPT !.pc = "invalidating",
                                !.deleted = @ \cup ((DOMAIN bucket) \ (DOMAIN b1))]]
    /\ UNCHANGED <<ntx, nops>>

\* Variant: the removed paths are left out of the invalidation.
InvalidationBatch_Short(changed) ==
    [k \in {x \in DOMAIN changed : x.kind = "top"} |-> changed[k]]
\* __aexit__ (repository/__init__.py:86-87): the paths given to
\* invalidate_cache, none when there is no changed path.
InvalidationBatch(changed) == IF changed # EmptyBag THEN changed ELSE EmptyBag

\* __aexit__ (repository/__init__.py:88-89): the key is deleted from the
\* keyring when there is one and gpg_clear was requested.
GpgClearKey(t) ==
    IF t.gpg # NoKey /\ t.gpg_clear THEN [t EXCEPT !.keys = FALSE] ELSE t
\* The base scope exit: the storage driver is closed and the scratch
\* directory removed.
Release(t) == [t EXCEPT !.storage = FALSE, !.tmp = FALSE]

\* Variant: invalidate_cache is called whether or not a path was recorded.
Finish_AlwaysInvalidates(w) ==
    /\ tx[w].pc = "invalidating"
    /\ tx' = [tx EXCEPT ![w] =
                [Release(GpgClearKey(tx[w]))
                    EXCEPT !.pc = "closed",
                           !.batch = tx[w].changed,
                           !.invalidated = TRUE]]
    /\ UNCHANGED <<bucket, ntx, nops>>
\* RepositoryBase.__aexit__ after _save: CDN invalidation when there are
\* changed paths, GPG key clearing, release of storage and scratch directory.
Finish(w) ==
    /\ tx[w].pc = "invalidating"
    /\ tx' = [tx EXCEPT ![w] =
                [Release(GpgClearKey(tx[w]))
                    EXCEPT !.pc = "closed",
                           !.batch = InvalidationBatch(tx[w].changed),
                           !.invalidated = (tx[w].changed # EmptyBag)]]
    /\ UNCHANGED <<bucket, ntx, nops>>

\* The async with statement returns; the transaction object is dropped.
Return(w) ==
    /\ tx[w].pc = "closed"
    /\ tx' = [tx EXCEPT ![w] = InitTx]
    /\ UNCHANGED <<bucket, ntx, nops>>

----
Step(w) ==
    \/ \E key \in {NoKey, GpgKey}, dbz \in BOOLEAN : Open(w, key, dbz)
    \/ LoadRecords(w)
    \/ \E f \in Files, loc \in {"src", "dst"}, rs \in BOOLEAN : Add(w, f, loc, rs)
    \/ \E f \in Files : Remove(w, f)
    \/ Leave(w)
    \/ Save(w)
    \/ \E k \in DOMAIN tx[w].pending : PutOne(w, k)
    \/ DeleteRemoved(w)
    \/ Finish(w)
    \/ Return(w)

\* One writer at a time (the event dispatcher serialises the events).
Next ==
    Step(1)

Spec == Init /\ [][Next]_vars

----
\* Faults, and inputs outside the normal course.

\* Variant: the missing metadata file is taken for a missing repository.
LoadFails_StartsEmpty(w) ==
    /\ tx[w].pc = "loading"
    /\ \E r \in tx[w].records : r[2] \notin DOMAIN bucket
    /\ tx' = [tx EXCEPT ![w] = [@ EXCEPT !.pc = "body", !.outdated = {}, !.records = {}]]
    /\ UNCHANGED <<bucket, ntx, nops>>
\* Repository._load: the get of a metadata file raises PackageNotFound.  Only
\* the get of repomd.xml is guarded: the exception leaves __aenter__.
LoadFails(w) ==
    /\ tx[w].pc = "loading"
    /\ \E r \in tx[w].records : r[2] \notin DOMAIN bucket
    /\ tx' = [tx EXCEPT ![w] = [@ EXCEPT !.pc = "failed", !.exc = "PackageNotFound"]]
    /\ UNCHANGED <<bucket, ntx, nops>>

\* An upload of _save raises (a ClientError of the object store): the
\* exception leaves the gather, _save and __aexit__; the uploads that did not
\* complete are lost with the event loop.
PutFails(w) ==
    /\ tx[w].pc = "publishing"
    /\ tx' = [tx EXCEPT ![w] =
                [@ EXCEPT !.pc = "failed", !.exc = "ClientError", !.pending = EmptyFn]]
    /\ UNCHANGED <<bucket, ntx, nops>>

\* invalidate_cache raises (a ClientError that is neither throttling nor a
\* duplicate batch): the exception leaves __aexit__.
InvalidateFails(w) ==
    /\ tx[w].pc = "invalidating"
    /\ tx[w].changed # EmptyBag
    /\ tx' = [tx EXCEPT ![w] = [@ EXCEPT !.pc = "failed", !.exc = "ClientError"]]
    /\ UNCHANGED <<bucket, ntx, nops>>

\* The exception leaves the async with statement; the transaction object is
\* dropped as it is.
Raise(w) ==
    /\ tx[w].pc = "failed"
    /\ tx' = [tx EXCEPT ![w] = InitTx]
    /\ UNCHANGED <<bucket, ntx, nops>>

\* The uploads present before the first event: the package "a" and the
\* renamed package "x", in the upload area.
InitFaults ==
    /\ \E present \in SUBSET {SrcKey("a"), SrcKey("x")} :
          bucket = [k \in present |-> "orig"]
    /\ tx = [w \in Writers |-> InitTx]
    /\ ntx = 0
    /\ nops = 0

\* One writer; the transactions keep the default database compression and
\* remove_source, a transaction with a key is asked to clear it, and the
\* packages come from the upload area.
NextFaults ==
    \/ \E key \in {NoKey, GpgKey} : Enter(1, key, TRUE, key # NoKey)
    \/ LoadRecords(1)
    \/ \E f \in NvraFiles \cup BadFiles : Add(1, f, "src", TRUE)
    \/ \E f \in NvraFiles : Remove(1, f)
    \/ Leave(1)
    \/ Save(1)
    \/ \E k \in DOMAIN tx[1].pending : PutOne(1, k)
    \/ DeleteRemoved(1)
    \/ Finish(1)
    \/ Return(1)
    \/ LoadFails(1)
    \/ PutFails(1)
    \/ InvalidateFails(1)
    \/ Raise(1)

SpecFaults == InitFaults /\ [][NextFaults]_vars

----
\* The scope exit in steps, with the requests to the CDN.

\* _SAME_CALLER_REFERENCE (s3.py:18-21).
SAME_CALLER_REFERENCE == "same caller reference"
\* The answers of create_invalidation: accepted, or a ClientError with a code
\* and a message.
Responses ==
    {[code |-> "ok", message |-> ""],
     [code |-> "Throttling", message |-> "Rate exceeded"],
     [code |-> "InvalidationBatchAlreadyExists", message |-> ""],
     [code |-> "InvalidArgument", message |-> SAME_CALLER_REFERENCE],
     [code |-> "InvalidArgument", message |-> "other"],
     [code |-> "AccessDenied", message |-> ""]}

\* Variant: a throttled request is given up, the method returns.
Outcome_GivesUp(resp) ==
    IF resp.code \in {"ok", "Throttling"} THEN "return"
    ELSE IF resp.code = "InvalidationBatchAlreadyExists"
            \/ (resp.code = "InvalidArgument" /\ resp.message = SAME_CALLER_REFERENCE)
    THEN "return"
    ELSE "raise"
\* Variant: every InvalidArgument error is taken for a duplicate batch.
Outcome_AnyInvalidArgument(resp) ==
    IF resp.code = "ok" THEN "return"
    ELSE IF resp.code = "Throttling" THEN "retry"
    ELSE IF resp.code \in {"InvalidationBatchAlreadyExists", "InvalidArgument"}
    THEN "return"
    ELSE "raise"
\* invalidate_cache (s3.py:170-185): what one pass of the loop does with the
\* answer of create_invalidation.
Outcome(resp) ==
    IF resp.code = "ok" THEN "return"
    ELSE IF resp.code = "Throttling" THEN "retry"
    ELSE IF resp.code = "InvalidationBatchAlreadyExists"
            \/ (resp.code = "InvalidArgument" /\ resp.message = SAME_CALLER_REFERENCE)
    THEN "return"
    ELSE "raise"

\* __aexit__ (repository/__init__.py:86-87) and the head of invalidate_cache
\* (s3.py:156-168): no call without a changed path; the call returns at once
\* when no distribution is configured; otherwise the request is built.
InvalidateCache(w, dist) ==
    /\ tx[w].pc = "invalidating"
    /\ LET t == tx[w]
       IN IF t.changed = EmptyBag
          THEN tx' = [tx EXCEPT ![w] = [t EXCEPT !.pc = "clearing"]]
          ELSE tx' = [tx EXCEPT ![w] =
                 [t EXCEPT !.pc = IF dist THEN "requesting" ELSE "clearing",
                           !.dist = dist,
                           !.batch = InvalidationBatch(t.changed),
                           !.invalidated = TRUE]]
    /\ UNCHANGED <<bucket, ntx, nops>>

\* One pass of the loop of invalidate_cache: the request is sent, the CDN
\* answers resp.  The CDN throttles one invalidation MaxThrottle times at most.
CreateInvalidation(w, resp) ==
    /\ tx[w].pc = "requesting"
    /\ resp.code = "Throttling" => tx[w].throttled < MaxThrottle
    /\ LET t == [tx[w] EXCEPT !.resp = resp,
                              !.attempts = @ + 1,
                              !.throttled = IF resp.code = "Throttling" THEN @ + 1 ELSE @,
                              !.accepted = IF resp.code = "ok" THEN @ + 1 ELSE @]
       IN tx' = [tx EXCEPT ![w] =
                   CASE Outcome(resp) = "return" -> [t EXCEPT !.pc = "clearing"]
                     [] Outcome(resp) = "retry" -> t
                     [] OTHER -> [t EXCEPT !.pc = "failed", !.exc = "ClientError"]]
    /\ UNCHANGED <<bucket, ntx, nops>>

\* __aexit__ (repository/__init__.py:88-89).
ClearKey(w) ==
    /\ tx[w].pc = "clearing"
    /\ tx' = [tx EXCEPT ![w] = [GpgClearKey(tx[w]) EXCEPT !.pc = "releasing"]]
    /\ UNCHANGED <<bucket, ntx, nops>>

\* __aexit__ (repository/__init__.py:90): the base scope exit.
ReleaseScope(w) ==
    /\ tx[w].pc = "releasing"
    /\ tx' = [tx EXCEPT ![w] = [Release(tx[w]) EXCEPT !.pc = "closed"]]
    /\ UNCHANGED <<bucket, ntx, nops>>

\* The package "a" may be in the upload area and in the repository directory.
InitCdn ==
    /\ \E present \in SUBSET {SrcKey("a"), DstKey("a")} :
          bucket = [k \in present |-> "orig"]
    /\ tx = [w \in Writers |-> InitTx]
    /\ ntx = 0
    /\ nops = 0

\* One writer, default database compression and remove_source; a transaction
\* with a key is asked to clear it.
NextCdn ==
    \/ \E key \in {NoKey, GpgKey} : Enter(1, key, TRUE, key # NoKey)
    \/ LoadRecords(1)
    \/ Add(1, "a", "src", TRUE)
    \/ Remove(1, "a")
    \/ Leave(1)
    \/ Save(1)
    \/ \E k \in DOMAIN tx[1].pending : PutOne(1, k)
    \/ DeleteRemoved(1)
    \/ \E dist \in BOOLEAN : InvalidateCache(1, dist)
    \/ \E resp \in Responses : CreateInvalidation(1, resp)
    \/ ClearKey(1)
    \/ ReleaseScope(1)
    \/ Return(1)
    \/ Raise(1)

\* The CDN answers every request (the loop of invalidate_cache sends the next
\* one a second after a Throttling answer).
SpecCdn ==
    /\ InitCdn /\ [][NextCdn]_vars
    /\ WF_vars(\E resp \in Responses : CreateInvalidation(1, resp))

----
\* The event handler (entrypoint/aws_lambda.py).

\* The event names S3 sends, and names that only resemble them.
EventNames ==
    {<<"ObjectCreated", "Put">>, <<"ObjectCreated", "Copy">>,
     <<"ObjectRemoved", "Delete">>, <<"ObjectRemoved", "DeleteMarkerCreated">>,
     <<"s3", "ObjectTagging", "Put">>, <<"s3", "ObjectCreated", "Put">>,
     <<"ObjectRestore", "Post">>, <<"ObjectCreated">>, <<"ObjectRemoved">>}
Events == {[name |-> n, key |-> k] : n \in EventNames, k \in {SrcKey("a"), DstKey("a")}}

\* str.startswith(prefix + ":") on a name split at the colons.
StartsWith(name, prefix) == Len(name) >= 2 /\ name[1] = prefix

\* Variant: the first part of the name is not looked at alone, the event kind
\* is searched in the whole name.
ActionOf_Anywhere(name) ==
    IF \E i \in DOMAIN name : i < Len(name) /\ name[i] = "ObjectCreated" THEN "add"
    ELSE IF \E i \in DOMAIN name : i < Len(name) /\ name[i] = "ObjectRemoved" THEN "remove"
    ELSE "ignore"
\* handler (aws_lambda.py:94-100): the action of an event name.
ActionOf(name) ==
    IF StartsWith(name, "ObjectCreated") THEN "add"
    ELSE IF StartsWith(name, "ObjectRemoved") THEN "remove"
    ELSE "ignore"

\* handler is called with an event (aws_lambda.py:93-94, 101-102).
Receive(w, ev) ==
    /\ tx[w].pc = "idle"
    /\ tx[w].event = NoEvent
    /\ tx' = [tx EXCEPT ![w] = [@ EXCEPT !.event = ev, !.ignored = FALSE]]
    /\ UNCHANGED <<bucket, ntx, nops>>

\* handler returns on an unsupported event (aws_lambda.py:99-100).
Ignore(w) ==
    /\ tx[w].pc = "idle"
    /\ tx[w].event # NoEvent
    /\ ActionOf(tx[w].event.name) = "ignore"
    /\ tx' = [tx EXCEPT ![w] = [@ EXCEPT !.event = NoEvent, !.ignored = TRUE]]
    /\ UNCHANGED <<bucket, ntx, nops>>

\* _async_handler (aws_lambda.py:81): the repository of the key is opened.
Start(w, key) ==
    /\ tx[w].event # NoEvent
    /\ ActionOf(tx[w].event.name) # "ignore"
    /\ Enter(w, key, TRUE, FALSE)

\* _async_handler (aws_lambda.py:82): getattr(repo, action)(key).
Act(w) ==
    /\ ~tx[w].called
    /\ LET ev == tx[w].event
           f == ev.key.name[1]
       IN IF ActionOf(ev.name) = "add"
          THEN Add(w, f, ev.key.kind, TRUE)
          ELSE Remove(w, f)

\* _async_handler (aws_lambda.py:83): the scope is left after the call.
LeaveAfterCall(w) == tx[w].called /\ Leave(w)

\* One handler at a time; the package "a" may be in the upload area and in
\* the repository directory.
NextEvents ==
    \/ \E ev \in Events : Receive(1, ev)
    \/ Ignore(1)
    \/ \E key \in {NoKey, GpgKey} : Start(1, key)
    \/ LoadRecords(1)
    \/ Act(1)
    \/ LeaveAfterCall(1)
    \/ Save(1)
    \/ \E k \in DOMAIN tx[1].pending : PutOne(1, k)
    \/ DeleteRemoved(1)
    \/ Finish(1)
    \/ Return(1)

SpecEvents == InitCdn /\ [][NextEvents]_vars

----
\* Repository.find_repository (rpm.py:380-434).  A file name is a sequence of
\* characters: "p" stands for a letter, "1" for a digit; the extension "rpm"
\* and the directory "d" are written as one character.

Chars == {"p", "1", "-", "."}
FileNames ==
    {dir \o body \o ext :
        dir \in {<<>>, <<"d", "/">>},
        body \in UNION {[1..n -> Chars] : n \in 0..MaxNameLen},
        ext \in {<<>>, <<".", "rpm">>}}
\* rpm.BASEURL as the tests set it (test_repository_rpm.py:13, 158, 172).
BaseUrls ==
    {NoBaseUrl,
     [set |-> TRUE, template |-> <<"s3://bucket/", "$releasever", "/", "$basearch">>],
     [set |-> TRUE, template |-> <<"s3://bucket/", "$basearch">>]}

\* The last position before `before` where s holds c, 0 when there is none.
LastIndex(s, c, before) ==
    LET at == {i \in DOMAIN s : i < before /\ s[i] = c}
    IN IF at = {} THEN 0 ELSE CHOOSE i \in at : \A x \in at : x <= i
\* The first position where s holds c, 0 when there is none.
FirstIndex(s, c) ==
    LET at == {i \in DOMAIN s : s[i] = c}
    IN IF at = {} THEN 0 ELSE CHOOSE i \in at : \A x \in at : i <= x
\* os.path.basename.
Basename(s) == SubSeq(s, LastIndex(s, "/", Len(s) + 1) + 1, Len(s))
\* _NEVRA (rpm.py:28-32) on a base name: what is before the final ".rpm".
Body(b) ==
    IF Len(b) >= 2 /\ b[Len(b) - 1] = "." /\ b[Len(b)] = "rpm"
    THEN SubSeq(b, 1, Len(b) - 2) ELSE <<>>
\* _NEVRA.match: the groups are greedy, so the arch starts after the last dot
\* of the body, the release after the last hyphen before that dot, and the
\* version after the last hyphen before that one.  No match: matched is FALSE.
ParseNevra(b) ==
    LET body == Body(b)
        k == LastIndex(body, ".", Len(body) + 1)
        j == LastIndex(body, "-", k)
        i == LastIndex(body, "-", j)
    IN IF Len(b) >= 2 /\ b[Len(b) - 1] = "." /\ b[Len(b)] = "rpm"
          /\ k > 0 /\ j > 0 /\ i > 0
       THEN [matched |-> TRUE,
             release |-> SubSeq(body, j + 1, k - 1),
             arch |-> SubSeq(body, k + 1, Len(body))]
       ELSE [matched |-> FALSE, release |-> <<>>, arch |-> <<>>]
\* str.lstrip(ascii_letters).
RECURSIVE LStripLetters(_)
LStripLetters(s) ==
    IF s # <<>> /\ Head(s) = "p" THEN LStripLetters(Tail(s)) ELSE s
\* Template(BASEURL).substitute(variables).
Substitute(template, releasever, basearch) ==
    [i \in DOMAIN template |->
        IF template[i] = "$releasever" THEN releasever
        ELSE IF template[i] = "$basearch" THEN basearch
        ELSE <<template[i]>>]

\* Variant: the file name is parsed before BASEURL is looked at.
FindRepository_ParsesFirst(baseurl, filename) ==
    LET nevra == ParseNevra(Basename(filename))
        dot == FirstIndex(nevra.release, ".")
        needs == \E i \in DOMAIN baseurl.template : baseurl.template[i] = "$releasever"
    IN IF ~nevra.matched THEN [raised |-> "InvalidPackage", url |-> <<>>]
       ELSE IF ~baseurl.set THEN [raised |-> "ValueError", url |-> <<>>]
       ELSE IF needs /\ dot = 0 THEN [raised |-> "InvalidPackage", url |-> <<>>]
       ELSE [raised |-> "none",
             url |-> Substitute(baseurl.template,
                        LStripLetters(SubSeq(nevra.release, dot + 1, Len(nevra.release))),
                        nevra.arch)]
\* Repository.find_repository: the exception raised, or the URL returned.
FindRepository(baseurl, filename) ==
    LET nevra == ParseNevra(Basename(filename))
        dot == FirstIndex(nevra.release, ".")
        needs == \E i \in DOMAIN baseurl.template : baseurl.template[i] = "$releasever"
    IN IF ~baseurl.set THEN [raised |-> "ValueError", url |-> <<>>]
       ELSE IF ~nevra.matched THEN [raised |-> "InvalidPackage", url |-> <<>>]
       ELSE IF needs /\ dot = 0 THEN [raised |-> "InvalidPackage", url |-> <<>>]
       ELSE [raised |-> "none",
             url |-> Substitute(baseurl.template,
                        IF needs
                        THEN LStripLetters(SubSeq(nevra.release, dot + 1, Len(nevra.release)))
                        ELSE <<>>,
                        nevra.arch)]

\* find_repository is called with a file name, under a setting of BASEURL.
Find(w, baseurl, filename) ==
    /\ tx[w].pc = "idle"
    /\ ~tx[w].found.asked
    /\ LET r == FindRepository(baseurl, filename)
       IN tx' = [tx EXCEPT ![w] =
                   [@ EXCEPT !.found = [asked |-> TRUE, baseurl |-> baseurl,
                                        filename |-> filename,
                                        raised |-> r.raised, url |-> r.url]]]
    /\ UNCHANGED <<bucket, ntx, nops>>

\* The result is dropped.
Forget(w) ==
    /\ tx[w].found.asked
    /\ tx' = [tx EXCEPT ![w] = [@ EXCEPT !.found = NoFound]]
    /\ UNCHANGED <<bucket, ntx, nops>>

\* A package is in the upload area; no transaction is open.
InitFind ==
    /\ bucket = [k \in {SrcKey("a")} |-> "orig"]
    /\ tx = [w \in Writers |-> InitTx]
    /\ ntx = 0
    /\ nops = 0

NextFind ==
    \/ /\ ~tx[1].found.asked
       /\ \E baseurl \in BaseUrls, filename \in FileNames : Find(1, baseurl, filename)
    \/ Forget(1)

SpecFind == InitFind /\ [][NextFind]_vars

----
\* Two transactions on the same repository at the same time.

\* The bucket after a transaction added the package "a" to an empty
\* repository, without key and with the default database compression.
PublishedA ==
    LET pkg == [file |-> "a", sum |-> "orig"]
        t == [InitTx EXCEPT !.pkgs = [ty \in IndexTypes |->
                 IF ty \in PkgMetadata THEN <<[key |-> Nvra("a"), val |-> pkg]>>
                 ELSE <<>>]]
        files == {MdKey(t, ty) : ty \in RecordTypes}
    IN [k \in files \cup {REPOMD, DstKey("a")} |->
          IF k = REPOMD THEN RepomdContent(t)
          ELSE IF k = DstKey("a") THEN "orig"
          ELSE MdContent(t, CHOOSE ty \in RecordTypes : MdKey(t, ty) = k)]

\* The repository holds the package "a", or there is no repository and the
\* package is in the upload area.
InitTwo ==
    /\ bucket \in {PublishedA, [k \in {SrcKey("a")} |-> "orig"]}
    /\ tx = [w \in Writers |-> InitTx]
    /\ ntx = 0
    /\ nops = 0

\* Each writer runs one transaction, without key, with the default database
\* compression; the steps of the two interleave.
NextTwo ==
    \E w \in Writers :
        \/ Enter(w, NoKey, TRUE, FALSE)
        \/ LoadRecords(w)
        \/ LoadFails(w)
        \/ \E loc \in {"src", "dst"} : Add(w, "a", loc, TRUE)
        \/ Remove(w, "a")
        \/ Leave(w)
        \/ Save(w)
        \/ \E k \in DOMAIN tx[w].pending : PutOne(w, k)
        \/ DeleteRemoved(w)
        \/ Finish(w)

SpecTwo == InitTwo /\ [][NextTwo]_vars

----
\* DEB repository (the (main, amd64) index of one codename).

\* Package files, named <name>_<version>_amd64.deb.
DebFiles == {"a", "b"}
\* The digest algorithms of Release.
DebAlgorithms == {"MD5Sum", "SHA1", "SHA256"}
\* The index files of a (component, architecture), as <<dir, name>> under
\* dists/<codename>/.
DebIndexFiles ==
    {<<"main/binary-amd64", "Packages">>, <<"main/binary-amd64", "Packages.gz">>,
     <<"main/binary-amd64", "Packages.xz">>,
     <<"main", "Contents-amd64">>, <<"main", "Contents-amd64.gz">>}
\* A package file in an upload area ("src") or at
\* pool/<component>/<prefix>/<name>/<filename> ("pool").
DebKey(loc, f) == [kind |-> loc, name |-> <<f, "deb">>, hash |-> <<>>]
PoolKey(f) == DebKey("pool", f)
\* dists/<codename>/<dir>/<name>
DistKey(dir, name) == [kind |-> "dists", name |-> <<dir, name>>, hash |-> <<>>]
\* dists/<codename>/<dir>/by-hash/<ALG>/<digest>
ByHashKey(dir, alg, digest) == [kind |-> "by-hash", name |-> <<dir, alg>>, hash |-> digest]
RELEASE == DistKey("", "Release")
INRELEASE == DistKey("", "InRelease")
RELEASE_GPG == DistKey("", "Release.gpg")
\* The digest of a content under an algorithm.
DebDigest(alg, c) == <<alg, c>>

\* The serialisation of one index file: the stanzas (or the file lists) of
\* the packages of the index, in the format its name says.
DebIndexContent(t, file) == [fmt |-> file[2], pkgs |-> DictValues(t.stanzas)]
\* The by-hash names of one index file.
ByHashKeys(t, file) ==
    {ByHashKey(file[1], alg, DebDigest(alg, DebIndexContent(t, file))) :
        alg \in DebAlgorithms}
\* Release: the date and, per algorithm, name, size and digest of every
\* index file (suite, codename, components and architectures are fixed here).
ReleaseContent(t, date) ==
    [date |-> date,
     sums |-> [alg \in DebAlgorithms |->
        {[name |-> file, size |-> SizeOf(DebIndexContent(t, file)),
          digest |-> DebDigest(alg, DebIndexContent(t, file))] :
             file \in DebIndexFiles}]]
\* gpg --clearsign: the text with the signature of a key around it.
ClearSigned(key, content) == [by |-> key, text |-> content]
\* Variant: InRelease is always produced by the signing step.
InReleaseContent_AlwaysSigned(key, release) == ClearSigned(key, release)
\* InRelease: the cleartext-signed copy of Release, or Release itself when
\* there is no key.
InReleaseContent(key, release) ==
    IF key = NoKey THEN release ELSE ClearSigned(key, release)

\* The by-hash names a Release lists.
ReleaseRefs(release) ==
    UNION {{ByHashKey(e.name[1], alg, e.digest) : e \in release.sums[alg]} :
              alg \in DebAlgorithms}

\* Packages parsed back into the index, keyed by Package, in file order.
RECURSIVE LoadStanzas(_, _)
LoadStanzas(d, content) ==
    IF content = <<>> THEN d
    ELSE LoadStanzas(DictAssign(d, Head(content).file, Head(content)), Tail(content))

\* Open: a fresh transaction; when a Release exists, its by-hash files are
\* the outdated candidates and Packages is loaded.
DebEnter(w, key) ==
    /\ tx[w].pc = "idle"
    /\ ntx < MaxTx
    /\ ntx' = ntx + 1
    /\ LET t0 == [InitTx EXCEPT !.gpg = key, !.tmp = TRUE, !.storage = TRUE,
                                !.keys = (key # NoKey), !.pc = "body"]
           packages == DistKey("main/binary-amd64", "Packages")
       IN IF RELEASE \notin DOMAIN bucket
          THEN tx' = [tx EXCEPT ![w] = t0]
          ELSE tx' = [tx EXCEPT ![w] =
                 [t0 EXCEPT !.outdated = ReleaseRefs(bucket[RELEASE]),
                            !.prevRefs = ReleaseRefs(bucket[RELEASE]),
                            !.loadedIndex = TRUE,
                            !.stanzas = IF packages \in DOMAIN bucket
                                        THEN LoadStanzas(<<>>, bucket[packages].pkgs)
                                        ELSE <<>>]]
    /\ UNCHANGED <<bucket, nops>>

\* add: the stanza of the package enters the index, keyed by Package; the
\* file is moved to the pool when it is elsewhere.
DebAdd(w, f, loc) ==
    /\ tx[w].pc = "body"
    /\ nops < MaxOps
    /\ nops' = nops + 1
    /\ LET t == tx[w]
           path == DebKey(loc, f)
           was == f \in DictKeys(t.stanzas)
       IN IF was
          THEN LET b1 == IF path # PoolKey(f) THEN StorageRemove(bucket, path)
                         ELSE bucket
               IN /\ bucket' = b1
                  /\ tx' = [tx EXCEPT ![w] =
                       [(Observe(t, "add", f, was, "PackageAlreadyExists", b1 = bucket))
                          EXCEPT !.deleted = @ \cup ((DOMAIN bucket) \ (DOMAIN b1))]]
          ELSE IF path \notin DOMAIN bucket
          THEN /\ tx' = [tx EXCEPT ![w] =
                    (Observe(t, "add", f, was, "PackageNotFound", TRUE))]
               /\ UNCHANGED bucket
          ELSE LET pkg == [file |-> f, sum |-> bucket[path]]
                   b1 == IF path # PoolKey(f)
                         THEN StorageRemove(Put(bucket, PoolKey(f), pkg.sum), path)
                         ELSE bucket
                   t1 == [t EXCEPT !.stanzas = DictAssign(@, f, pkg)]
                   t2 == MarkAsModified(t1, {PoolKey(f)}, FALSE)
               IN /\ bucket' = b1
                  /\ tx' = [tx EXCEPT ![w] =
                       [(Observe(t2, "add", f, was, "none", b1 = bucket))
                          EXCEPT !.written = @ \cup (IF path # PoolKey(f)
                                                     THEN {PoolKey(f)} ELSE {}),
                                 !.deleted = @ \cup ((DOMAIN bucket) \ (DOMAIN b1))]]
    /\ UNCHANGED ntx

\* remove: the stanza is dropped, the pool file is scheduled for deletion.
DebRemove(w, f) ==
    /\ tx[w].pc = "body"
    /\ nops < MaxOps
    /\ nops' = nops + 1
    /\ LET t == tx[w]
           t1 == [t EXCEPT !.stanzas = DictDel(@, f)]
           t2 == MarkForDeletion(t1, {PoolKey(f)})
       IN tx' = [tx EXCEPT ![w] =
                   (Observe(t2, "remove", f, f \in DictKeys(t.stanzas), "none", TRUE))]
    /\ UNCHANGED <<bucket, ntx>>

\* Variant: every by-hash file of the previous Release is deleted.
DebOutdated_All(produced, outdated) == outdated
\* The by-hash files of the previous Release that the new one does not list.
DebOutdated(produced, outdated) == outdated \ produced

\* save: the index files whose by-hash names are new are published at their
\* plain location and by-hash; Release, InRelease and, when signing,
\* Release.gpg are published; the by-hash files no longer listed are
\* scheduled for deletion.
DebSave(w) ==
    /\ tx[w].pc = "exit"
    /\ LET t == tx[w]
           produced == UNION {ByHashKeys(t, file) : file \in DebIndexFiles}
           changed == {file \in DebIndexFiles : ~(ByHashKeys(t, file) \subseteq t.outdated)}
           plain == {DistKey(file[1], file[2]) : file \in changed}
           byhash == UNION {ByHashKeys(t, file) : file \in changed}
           release == ReleaseContent(t, ntx)
           tops == {RELEASE, INRELEASE} \cup (IF t.gpg = NoKey THEN {} ELSE {RELEASE_GPG})
           content(k) ==
               IF k = RELEASE THEN release
               ELSE IF k = INRELEASE THEN InReleaseContent(t.gpg, release)
               ELSE IF k = RELEASE_GPG THEN Signature(t.gpg, release)
               ELSE IF k.kind = "by-hash" THEN k.hash[2]
               ELSE DebIndexContent(t, k.name)
           t1 == [t EXCEPT !.outdated = DebOutdated(produced, t.outdated),
                           !.lastOp = NoOp, !.touched = {}, !.stanzas = <<>>]
           t2 == MarkAsModified(t1, tops \cup plain, TRUE)
           t3 == MarkAsModified(t2, byhash, FALSE)
           t4 == MarkForDeletion(t3, t1.outdated)
       IN tx' = [tx EXCEPT ![w] =
                   [t4 EXCEPT !.pc = "publishing",
                              !.published = TRUE,
                              !.pending = [k \in tops \cup plain \cup byhash |-> content(k)]]]
    /\ UNCHANGED <<bucket, ntx, nops>>

\* Every pending upload, put in the bucket.
RECURSIVE PutAll(_, _)
PutAll(b, pending) ==
    IF DOMAIN pending = {} THEN b
    ELSE LET k == CHOOSE x \in DOMAIN pending : TRUE
         IN PutAll(Put(b, k, pending[k]),
                   [x \in (DOMAIN pending) \ {k} |-> pending[x]])

\* The uploads save started have all completed.
DebPublish(w) ==
    /\ tx[w].pc = "publishing"
    /\ bucket' = PutAll(bucket, tx[w].pending)
    /\ tx' = [tx EXCEPT ![w] =
                [@ EXCEPT !.pending = EmptyFn,
                          !.written = @ \cup DOMAIN tx[w].pending,
                          !.pc = "deleting"]]
    /\ UNCHANGED <<ntx, nops>>

\* Package files were uploaded, to an upload area or straight into the pool;
\* there is no repository yet.
InitDeb ==
    /\ \E present \in SUBSET {DebKey(loc, f) : loc \in {"src", "pool"}, f \in DebFiles} :
          bucket = [k \in present |-> "orig"]
    /\ tx = [w \in Writers |-> InitTx]
    /\ ntx = 0
    /\ nops = 0

\* Transactions of one writer, with or without key, one after the other.
NextDeb ==
    \/ \E key \in {NoKey, GpgKey} : DebEnter(1, key)
    \/ \E f \in DebFiles, loc \in {"src", "pool"} : DebAdd(1, f, loc)
    \/ \E f \in DebFiles : DebRemove(1, f)
    \/ Leave(1)
    \/ DebSave(1)
    \/ DebPublish(1)
    \/ DeleteRemoved(1)
    \/ Finish(1)
    \/ Return(1)

SpecDeb == InitDeb /\ [][NextDeb]_vars

----
\* The DEB Contents table: a list of (path, [packages]) sorted by path.

\* Paths, named by their rank in the sort order, and package names
\* (<section>/<name>).
ContentsPaths == {1, 2, 3}
ContentsNames == {"x", "y"}
\* The package lists an entry may hold: names without repetition, not empty.
PkgLists ==
    {<<n>> : n \in ContentsNames}
       \cup {l \in {<<n, m>> : n \in ContentsNames, m \in ContentsNames} : l[1] # l[2]}
\* The entries of a table, as a function from the paths it has to their lists.
EntriesOf(contents) ==
    [p \in {contents[i].path : i \in DOMAIN contents} |->
        (CHOOSE e \in {contents[i] : i \in DOMAIN contents} : e.path = p).pkgs]
\* The table of a function from paths to lists: sorted by path, without the
\* paths no package provides.
RECURSIVE TableOf(_, _)
TableOf(paths, f) ==
    IF paths = {} THEN <<>>
    ELSE LET p == CHOOSE x \in paths : \A y \in paths : x <= y
         IN (IF f[p] = <<>> THEN <<>> ELSE <<[path |-> p, pkgs |-> f[p]]>>)
               \o TableOf(paths \ {p}, f)
\* Every table: sorted, one entry per path, no empty entry.
ContentsTables ==
    UNION {{TableOf(ps, f) : f \in [ps -> PkgLists]} : ps \in SUBSET ContentsPaths}
ListHas(l, n) == \E i \in DOMAIN l : l[i] = n
ListWithout(l, n) == LET keep(v) == v # n IN SelectSeq(l, keep)

\* Variant: an entry that lost its last package stays in the table.
UpdateContentsEntries_KeepsEmpty(name, files, contents) ==
    LET old == EntriesOf(contents)
        paths == (DOMAIN old) \cup files
        was(p) == IF p \in DOMAIN old THEN old[p] ELSE <<>>
        new == [p \in paths |->
                  IF p \in files
                  THEN IF ListHas(was(p), name) THEN was(p) ELSE Append(was(p), name)
                  ELSE ListWithout(was(p), name)]
    IN [changed |-> \E p \in paths : ListHas(was(p), name) # (p \in files),
        contents |-> [i \in 1..Cardinality(paths) |->
            LET p == CHOOSE x \in paths : Cardinality({y \in paths : y < x}) = i - 1
            IN [path |-> p, pkgs |-> new[p]]]]
\* _update_contents_entries(name, files, contents): the package is added to
\* the entry of each of its files (a new entry when the path has none) and
\* taken out of every other entry; an entry left without package is dropped.
\* Returns whether an entry was touched, and the table.
UpdateContentsEntries(name, files, contents) ==
    LET old == EntriesOf(contents)
        paths == (DOMAIN old) \cup files
        was(p) == IF p \in DOMAIN old THEN old[p] ELSE <<>>
        new == [p \in paths |->
                  IF p \in files
                  THEN IF ListHas(was(p), name) THEN was(p) ELSE Append(was(p), name)
                  ELSE ListWithout(was(p), name)]
    IN [changed |-> \E p \in paths : ListHas(was(p), name) # (p \in files),
        contents |-> TableOf(paths, new)]

\* Observer record of the calls made on a table: the table, the table before
\* the last call, the arguments and the result of that call.
NoContents == [table |-> <<>>, before |-> <<>>, name |-> "", files |-> {},
               returned |-> FALSE, calls |-> 0]

\* One call of _update_contents_entries on the table.
UpdateContents(w, name, files) ==
    /\ tx[w].contents.calls < MaxOps
    /\ LET c == tx[w].contents
           r == UpdateContentsEntries(name, files, c.table)
       IN tx' = [tx EXCEPT ![w] =
                   [@ EXCEPT !.contents =
                       [table |-> r.contents, before |-> c.table, name |-> name,
                        files |-> files, returned |-> r.changed,
                        calls |-> c.calls + 1]]]
    /\ UNCHANGED <<bucket, ntx, nops>>

\* Any table, before the first call.
InitContents ==
    /\ bucket = EmptyFn
    /\ \E table \in ContentsTables :
          tx = [w \in Writers |->
                  [InitTx EXCEPT !.contents = [NoContents EXCEPT !.table = table]]]
    /\ ntx = 0
    /\ nops = 0

NextContents ==
    \E name \in ContentsNames, files \in SUBSET ContentsPaths :
        UpdateContents(1, name, files)

SpecContents == InitContents /\ [][NextContents]_vars

----
\* A storage call of add fails.

\* Repository.add(path) when a call of its gather raises (rpm.py:136-149): the
\* record is in the in-memory index and the file is marked as modified before
\* the gather starts.  failed is the call that raises ("put" or "remove");
\* the other call of the gather, when there is one, has completed or not
\* (other) when the exception leaves add.
AddFails(w, f, loc, failed, other) ==
    /\ tx[w].pc = "body"
    /\ nops < MaxOps
    /\ nops' = nops + 1
    /\ LET t == tx[w]
           path == PkgKey(loc, f)
           dst_path == DstKey(f)
           signed == t.gpg # NoKey
           puts == signed \/ path # dst_path
           removes == path # dst_path
           pkg == [file |-> f, sum |-> SignPkg(t, bucket[path])]
           b1 == IF failed = "remove" /\ puts /\ other
                 THEN Put(bucket, dst_path, pkg.sum) ELSE bucket
           b2 == IF failed = "put" /\ removes /\ other
                 THEN StorageRemove(b1, path) ELSE b1
           t1 == [t EXCEPT !.pkgs = [ty \in IndexTypes |->
                             DictSetDefault(t.pkgs[ty], Nvra(f), pkg)]]
           t2 == MarkAsModified(t1, {dst_path}, FALSE)
       IN /\ Stem(f) \notin DictKeys(t.pkgs["primary"])
          /\ path \in DOMAIN bucket
          /\ Stem(f) = Nvra(f) \/ Stem(f) = Nevra(f)
          /\ (failed = "put" /\ puts) \/ (failed = "remove" /\ removes)
          /\ bucket' = b2
          /\ tx' = [tx EXCEPT ![w] =
               [(Observe(t2, "add", f, WasIndexed(t, f), "ClientError", b2 = bucket))
                  EXCEPT !.written = @ \cup ((DOMAIN b2) \ (DOMAIN bucket)),
                         !.deleted = @ \cup ((DOMAIN bucket) \ (DOMAIN b2))]]
    /\ UNCHANGED ntx

\* One writer, no key, default database compression and remove_source; the
\* storage may fail a call of add.
NextAddFaults ==
    \/ Enter(1, NoKey, TRUE, FALSE)
    \/ LoadRecords(1)
    \/ \E loc \in {"src", "dst"} : Add(1, "a", loc, TRUE)
    \/ \E failed \in {"put", "remove"}, other \in BOOLEAN :
          AddFails(1, "a", "src", failed, other)
    \/ Remove(1, "a")
    \/ Leave(1)
    \/ Save(1)
    \/ \E k \in DOMAIN tx[1].pending : PutOne(1, k)
    \/ DeleteRemoved(1)
    \/ Finish(1)
    \/ Return(1)

SpecAddFaults == InitCdn /\ [][NextAddFaults]_vars

----
\* Observers used by the properties.
Closed(w) == tx[w].pc = "closed"
\* The files the top-level index in the bucket references.
IndexRefs(b) ==
    IF REPOMD \in DOMAIN b
    THEN {b[REPOMD].records[ty].href : ty \in RecordTypes} ELSE {}
\* The package files any metadata file of the published index lists.
ListedAny(b) == UNION {ListedIn(b, ty) : ty \in PkgMetadata}

\* C1: after a transaction whose add/remove calls name distinct packages, the
\* packages listed by the published top-level index are the packages listed
\* at open with the operations applied in order.
C1_IndexFollowsOperations ==
    \A w \in Writers :
        (Closed(w) /\ tx[w].distinct) =>
            \A ty \in PkgMetadata : ListedIn(bucket, ty) = tx[w].expected

\* C2: an add of a package that is already indexed raises
\* PackageAlreadyExists and leaves the bucket as it was before the call.
C2_SecondAddRaisesBucketSame ==
    \A w \in Writers :
        (tx[w].lastOp.kind = "add" /\ tx[w].lastOp.indexed) =>
            /\ tx[w].lastOp.raised = "PackageAlreadyExists"
            /\ tx[w].lastOp.same

\* C3: at every instant, every metadata file the top-level index in the
\* bucket references is in the bucket.
C3_IndexNeverDangling == IndexRefs(bucket) \subseteq DOMAIN bucket

\* C4: after a transaction, every entry of the top-level index refers to an
\* object that is in the bucket and has the declared checksum, entries whose
\* upload was skipped included.
C4_IndexEntriesMatchObjects ==
    \A w \in Writers :
        Closed(w) =>
            /\ REPOMD \in DOMAIN bucket
            /\ \A ty \in RecordTypes :
                 LET rec == bucket[REPOMD].records[ty]
                 IN /\ rec.href \in DOMAIN bucket
                    /\ SizeOf(bucket[rec.href]) = rec.size
                    /\ Digest(bucket[rec.href]) = rec.checksum
\* C4 witness: a closed transaction published an index with an entry whose
\* upload was skipped (a file of the previous index).
C4_Witness ==
    \E w \in Writers :
        /\ Closed(w) /\ tx[w].published
        /\ \E k \in IndexRefs(bucket) : k \in tx[w].prevRefs /\ k \notin tx[w].written

\* C5: a package listed by the index found at open is in the loaded in-memory
\* index, so the first add of it in the transaction raises
\* PackageAlreadyExists.
C5_RoundTripAddRaises ==
    \A w \in Writers :
        (/\ tx[w].lastOp.kind = "add"
         /\ tx[w].lastOp.first
         /\ tx[w].lastOp.file \in tx[w].atOpen) =>
            /\ tx[w].lastOp.indexed
            /\ tx[w].lastOp.raised = "PackageAlreadyExists"

\* C6: after close, a package that was added (in this transaction or in an
\* earlier one) and then removed has no file at its repository destination
\* and no entry in the published index.
C6_RemovedPackageGone ==
    \A w \in Writers : \A f \in Files :
        (/\ Closed(w)
         /\ DstKey(f) \in tx[w].removed
         /\ f \notin tx[w].expected
         /\ (f \in tx[w].atOpen \/ DstKey(f) \in tx[w].modified)) =>
            /\ DstKey(f) \notin DOMAIN bucket
            /\ f \notin ListedAny(bucket)

\* C7: when a transaction published a new top-level index, every object the
\* previous index referenced and the new one does not is in the removed set
\* and is absent from the bucket after close.
C7_StaleFilesRemoved ==
    \A w \in Writers :
        (Closed(w) /\ tx[w].published) =>
            \A k \in tx[w].prevRefs \ IndexRefs(bucket) :
                k \in tx[w].removed /\ k \notin DOMAIN bucket
\* C7 witness: a closed transaction replaced files of the previous index.
C7_Witness ==
    \E w \in Writers :
        /\ Closed(w) /\ tx[w].published
        /\ tx[w].prevRefs \ IndexRefs(bucket) # {}

\* C8 (as claimed): every object a transaction deletes from the bucket was
\* referenced by the top-level index it loaded.
C8_DeletesOnlyIndexed ==
    \A w \in Writers : tx[w].deleted \subseteq tx[w].prevRefs
\* C8 (amended): every object a transaction deletes was referenced by the
\* top-level index it loaded, or is the repository file of a package passed
\* to remove, or is a source object outside the repository passed to add.
C8_DeletesIndexedOrPackages ==
    \A w \in Writers : \A k \in tx[w].deleted :
        \/ k \in tx[w].prevRefs
        \/ k.kind = "dst" /\ k \in tx[w].removed
        \/ k.kind = "src"
\* C8 witness: a closed transaction deleted a metadata file and a package file.
C8_Witness ==
    \E w \in Writers :
        /\ Closed(w)
        /\ \E k \in tx[w].deleted : k.kind = "md"
        /\ \E k \in tx[w].deleted : k.kind = "dst"

\* C9: after a transaction with a signing key, the top-level index in the
\* bucket has a detached signature by that key over its current content.
C9_SignedIndexHasSignature ==
    \A w \in Writers :
        (Closed(w) /\ tx[w].gpg # NoKey) =>
            /\ REPOMD \in DOMAIN bucket
            /\ REPOMD_ASC \in DOMAIN bucket
            /\ bucket[REPOMD_ASC] = Signature(tx[w].gpg, bucket[REPOMD])

C11_BatchHasNoDuplicate ==
    \A w \in Writers :
        Closed(w) =>
            \A k \in BagToSet(tx[w].batch) : CopiesIn(k, tx[w].batch) = 1

\* C12 (as claimed): at close the CDN invalidation is invoked exactly when
\* modified \cup removed is not empty, and then over that union.
C12_InvalidatedIffModifiedOrRemoved ==
    \A w \in Writers :
        Closed(w) =>
            /\ tx[w].invalidated <=> (tx[w].modified \cup tx[w].removed # {})
            /\ tx[w].invalidated =>
                  BagToSet(tx[w].batch) = tx[w].modified \cup tx[w].removed
\* C12 (amended): at close the CDN invalidation is invoked exactly when the
\* removed set is not empty or the top-level index was republished; its paths
\* are the removed set and the republished index; otherwise there is no
\* request.
C12_InvalidatedIffRecorded ==
    \A w \in Writers :
        Closed(w) =>
            /\ tx[w].invalidated <=> (tx[w].removed # {} \/ tx[w].published)
            /\ BagToSet(tx[w].batch) =
                  tx[w].removed \cup (IF tx[w].published THEN {REPOMD} ELSE {})
            /\ ~tx[w].invalidated => tx[w].batch = EmptyBag
\* C12 witness: a closed transaction invoked the invalidation while a path of
\* its modified set is not in the batch.
C12_Witness ==
    \E w \in Writers :
        /\ Closed(w) /\ tx[w].invalidated
        /\ tx[w].modified \ BagToSet(tx[w].batch) # {}

\* The transaction of writer w runs with the database compression of the
\* transaction that published the index it loaded.
SameSettings(w) ==
    \E k \in tx[w].prevRefs : k.name = <<"primary_db", MdExt("primary_db", tx[w].dbz)>>

\* C13: a transaction without add or remove, on a repository a previous
\* transaction published with the same settings, uploads nothing and deletes
\* nothing: modified and removed stay empty and the top-level index is not
\* rewritten.
C13_RerunChangesNothing ==
    \A w \in Writers :
        (Closed(w) /\ tx[w].loadedIndex /\ ~tx[w].called /\ SameSettings(w)) =>
            /\ tx[w].written = {} /\ tx[w].deleted = {}
            /\ tx[w].modified = {} /\ tx[w].removed = {}
            /\ ~tx[w].published
\* C13 witness: such a transaction closed on a repository that lists a package.
C13_Witness ==
    \E w \in Writers :
        /\ Closed(w) /\ tx[w].loadedIndex /\ ~tx[w].called /\ SameSettings(w)
        /\ tx[w].atOpen # {}

\* C14: an add never duplicates or overwrites an entry of the in-memory
\* index: every key maps to one record, the records already there stay as
\* they are and in place, and an add changes no index that holds the package.
C14_AddNeverOverwrites ==
    [][\A w \in Writers :
         /\ \A ty \in IndexTypes :
              Cardinality(DictKeys(tx'[w].pkgs[ty])) = Len(tx'[w].pkgs[ty])
         /\ \A f \in Files, loc \in {"src", "dst"}, rs \in BOOLEAN :
              Add(w, f, loc, rs) =>
                 \A ty \in IndexTypes :
                    /\ Len(tx'[w].pkgs[ty]) >= Len(tx[w].pkgs[ty])
                    /\ SubSeq(tx'[w].pkgs[ty], 1, Len(tx[w].pkgs[ty])) = tx[w].pkgs[ty]
                    /\ Nvra(f) \in DictKeys(tx[w].pkgs[ty]) =>
                          tx'[w].pkgs[ty] = tx[w].pkgs[ty]]_vars
\* C14 witness: an add of a package that was indexed went through the
\* insertion (no exception) and the index holds records.
C14_Witness ==
    \E w \in Writers :
        /\ tx[w].lastOp.kind = "add" /\ tx[w].lastOp.indexed
        /\ tx[w].lastOp.raised = "none"
        /\ tx[w].pkgs["primary"] # <<>>

\* C15: on every exit path of the scope (normal close, or an exception of the
\* body, of save, of an upload or of the CDN invalidation) the scratch
\* directory is removed, the storage driver is closed and, when gpg_clear was
\* requested, the key is deleted from the keyring.
C15_ResourcesReleased ==
    \A w \in Writers :
        (Closed(w) \/ (tx[w].pc = "failed" /\ tx[w].exc = "ClientError")) =>
            /\ ~tx[w].tmp
            /\ ~tx[w].storage
            /\ (tx[w].gpg # NoKey /\ tx[w].gpg_clear) => ~tx[w].keys

\* C16: once an operation of the body raised and the exception left the
\* scope, no step of the scope exit changes the bucket or starts an upload:
\* the bucket holds what had been written before the error.
C16_NoWriteAfterError ==
    [][\A w \in Writers :
         (/\ tx[w].exc # "none"
          /\ tx[w].pc \in {"exit", "publishing", "deleting", "invalidating"}) =>
             /\ bucket' = bucket
             /\ tx'[w].pending = EmptyFn]_vars

\* C17: an add of an indexed package raises PackageAlreadyExists; a source
\* object outside the repository destination is deleted and the object at the
\* destination is kept as it is; when the path is the destination nothing is
\* deleted.
C17_StraySourceDeleted ==
    [][\A w \in Writers : \A f \in Files, rs \in BOOLEAN :
         /\ (Add(w, f, "src", rs) /\ WasIndexed(tx[w], f)) =>
               /\ tx'[w].lastOp.raised = "PackageAlreadyExists"
               /\ SrcKey(f) \notin DOMAIN bucket'
               /\ DstKey(f) \in DOMAIN bucket =>
                     (DstKey(f) \in DOMAIN bucket' /\ bucket'[DstKey(f)] = bucket[DstKey(f)])
         /\ (Add(w, f, "dst", rs) /\ WasIndexed(tx[w], f)) =>
               /\ tx'[w].lastOp.raised = "PackageAlreadyExists"
               /\ bucket' = bucket]_vars

\* C18: after an add that raised nothing the package is at its repository
\* destination; the source object is deleted exactly when remove_source is
\* true and the path is not the destination; an upload is issued exactly when
\* the file was signed or the path is not the destination.
C18_AddMovesPackage ==
    [][\A w \in Writers : \A f \in Files, loc \in {"src", "dst"}, rs \in BOOLEAN :
         (Add(w, f, loc, rs) /\ tx'[w].lastOp.raised = "none") =>
            /\ DstKey(f) \in DOMAIN bucket'
            /\ bucket'[DstKey(f)] = SignPkg(tx[w], bucket[PkgKey(loc, f)])
            /\ loc = "src" => (SrcKey(f) \notin DOMAIN bucket' <=> rs)
            /\ DstKey(f) \notin tx[w].written =>
                  (DstKey(f) \in tx'[w].written <=>
                      (tx[w].gpg # NoKey \/ loc = "src"))]_vars
\* C18 witness: an add moved a package from an upload area to its destination
\* and deleted the source.
C18_Witness ==
    \E w \in Writers : \E f \in Files :
        /\ tx[w].lastOp.kind = "add" /\ tx[w].lastOp.file = f
        /\ tx[w].lastOp.raised = "none"
        /\ SrcKey(f) \in tx[w].deleted
        /\ DstKey(f) \in tx[w].written
        /\ DstKey(f) \in DOMAIN bucket

\* C19: an add of a file whose name matches neither the NVRA nor the NEVRA of
\* the package raises InvalidPackage and changes neither the in-memory index,
\* nor the modified and removed sets, nor the invalidation list, nor the
\* bucket (nothing is uploaded or deleted).
C19_InvalidPackageChangesNothing ==
    [][\A w \in Writers : \A f \in BadFiles, loc \in {"src", "dst"}, rs \in BOOLEAN :
         (Add(w, f, loc, rs) /\ PkgKey(loc, f) \in DOMAIN bucket) =>
            /\ tx'[w].lastOp.raised = "InvalidPackage"
            /\ tx'[w].pkgs = tx[w].pkgs
            /\ tx'[w].modified = tx[w].modified
            /\ tx'[w].removed = tx[w].removed
            /\ tx'[w].changed = tx[w].changed
            /\ tx'[w].written = tx[w].written
            /\ tx'[w].deleted = tx[w].deleted
            /\ bucket' = bucket]_vars
\* C19 witness: an add raised InvalidPackage in a transaction whose index
\* holds a package stored in the repository.
C19_Witness ==
    \E w \in Writers :
        /\ tx[w].lastOp.kind = "add" /\ tx[w].lastOp.raised = "InvalidPackage"
        /\ tx[w].pkgs["primary"] # <<>>
        /\ \E f \in Files : DstKey(f) \in DOMAIN bucket

\* C20 (as claimed): open never fails with PackageNotFound, also when a
\* metadata file the top-level index references is missing.
C20_OpenNeverFails ==
    \A w \in Writers :
        ~(tx[w].pc = "failed" /\ tx[w].exc = "PackageNotFound")
\* C20 (amended): when the top-level index is missing, open succeeds with an
\* empty index and an empty set of pre-existing metadata; when the index is
\* there and a metadata file it references is missing, open fails with
\* PackageNotFound.
C20_OpenFailsOnlyOnMissingRecord ==
    [][\A w \in Writers :
         /\ (tx[w].pc = "idle" /\ tx'[w].pc # "idle" /\ REPOMD \notin DOMAIN bucket) =>
               /\ tx'[w].pc = "body"
               /\ tx'[w].pkgs = [ty \in IndexTypes |-> <<>>]
               /\ tx'[w].outdated = {}
         /\ (/\ tx[w].pc = "loading"
             /\ \E r \in tx[w].records : r[2] \notin DOMAIN bucket) =>
               /\ tx'[w].pc = "failed"
               /\ tx'[w].exc = "PackageNotFound"]_vars
\* C20 witness: open failed on a top-level index that references a missing
\* metadata file.
C20_Witness ==
    \E w \in Writers :
        /\ tx[w].pc = "failed" /\ tx[w].exc = "PackageNotFound"
        /\ tx[w].loadedIndex
        /\ tx[w].prevRefs \ DOMAIN bucket # {}

\* C21: a transaction opened where there is no top-level index and closed
\* without add or remove publishes an empty repository: after close the
\* top-level index is in the bucket, it lists no package, and its path is in
\* modified.
C21_EmptyRepositoryPublished ==
    \A w \in Writers :
        (Closed(w) /\ ~tx[w].loadedIndex /\ ~tx[w].called) =>
            /\ REPOMD \in DOMAIN bucket
            /\ REPOMD \in tx[w].modified
            /\ ListedAny(bucket) = {}
            /\ IndexRefs(bucket) \subseteq DOMAIN bucket
\* C21 witness: such a transaction closed, and it was the first one on the
\* bucket.
C21_Witness ==
    \E w \in Writers :
        /\ Closed(w) /\ ~tx[w].loadedIndex /\ ~tx[w].called
        /\ ntx = 1
        /\ tx[w].published

\* C22: storage.remove is idempotent: on a key that is absent it returns
\* without raising and leaves the bucket as it is; called twice in a row on
\* any key, the second call does not raise and the bucket is as after the
\* first.
C22_RemoveIdempotent ==
    \A k \in Uploads \cup {DstKey(f) : f \in Files} \cup {REPOMD, REPOMD_ASC}
              \cup DOMAIN bucket \cup UNION {tx[w].removed : w \in Writers} :
        /\ k \notin DOMAIN bucket =>
              (~RemoveRaises(bucket, k) /\ StorageRemove(bucket, k) = bucket)
        /\ ~RemoveRaises(bucket, k)
        /\ ~RemoveRaises(StorageRemove(bucket, k), k)
        /\ StorageRemove(StorageRemove(bucket, k), k) = StorageRemove(bucket, k)
        /\ k \notin DOMAIN StorageRemove(bucket, k)
\* C22 witness: at close the paths of the removed set were removed, one of
\* them was in the bucket and one of them was not.
C22_Witness ==
    \E w \in Writers :
        /\ Closed(w)
        /\ tx[w].removed \cap tx[w].deleted # {}
        /\ tx[w].removed \ tx[w].deleted # {}

\* C23: invalidate_cache sends the same request again after each Throttling
\* answer, without raising, and returns on the first accepted attempt: while
\* the CDN answers nothing but Throttling and, in the end, an acceptance, the
\* call terminates with success and exactly one batch accepted, after one
\* request per Throttling answer and one more.
C23_ThrottledInvalidationTerminates ==
    /\ [](\A w \in Writers :
            /\ tx[w].resp.code = "Throttling" =>
                  /\ tx[w].pc = "requesting" /\ tx[w].exc # "ClientError"
                  /\ tx[w].attempts = tx[w].throttled /\ tx[w].accepted = 0
            /\ tx[w].resp.code = "ok" =>
                  /\ tx[w].pc \in {"clearing", "releasing", "closed"}
                  /\ tx[w].exc # "ClientError"
                  /\ tx[w].accepted = 1
                  /\ tx[w].attempts = tx[w].throttled + 1
            /\ tx[w].pc = "requesting" => tx[w].batch = tx[w].changed)
    /\ \A w \in Writers :
          [](tx[w].resp.code \in {"none", "ok", "Throttling"}) =>
             ((tx[w].pc = "requesting") ~>
                 (tx[w].pc = "clearing" /\ tx[w].resp.code = "ok" /\ tx[w].accepted = 1))
\* C23 witness: the call returned on an acceptance that followed a Throttling
\* answer.
C23_Witness ==
    \E w \in Writers :
        /\ tx[w].pc = "clearing" /\ tx[w].resp.code = "ok"
        /\ tx[w].throttled >= 1 /\ tx[w].accepted = 1

\* C24: a duplicate-invalidation answer (InvalidationBatchAlreadyExists, or
\* InvalidArgument with the same-caller-reference message) makes
\* invalidate_cache return with success; a Throttling answer never makes it
\* raise; any other error of the CDN is raised to the caller.
C24_CdnErrorsAbsorbedOrRaised ==
    [][\A w \in Writers : \A resp \in Responses :
         CreateInvalidation(w, resp) =>
            LET duplicate ==
                    \/ resp.code = "InvalidationBatchAlreadyExists"
                    \/ /\ resp.code = "InvalidArgument"
                       /\ resp.message = SAME_CALLER_REFERENCE
            IN /\ duplicate =>
                     (tx'[w].pc = "clearing" /\ tx'[w].exc = tx[w].exc)
               /\ resp.code = "Throttling" =>
                     (tx'[w].pc = "requesting" /\ tx'[w].exc = tx[w].exc)
               /\ (resp.code \notin {"ok", "Throttling"} /\ ~duplicate) =>
                     (tx'[w].pc = "failed" /\ tx'[w].exc = "ClientError")
               /\ resp.code # "ok" => tx'[w].accepted = tx[w].accepted]_vars
\* C24 witness: a transaction closed after a Throttling answer followed by a
\* duplicate-invalidation answer.
C24_Witness ==
    \E w \in Writers :
        /\ Closed(w) /\ tx[w].throttled >= 1
        /\ tx[w].resp.code = "InvalidArgument"
        /\ tx[w].resp.message = SAME_CALLER_REFERENCE

\* C25: the handler calls add with the key of every event whose name starts
\* with "ObjectCreated:" and remove with the key of every event whose name
\* starts with "ObjectRemoved:", and nothing else; for any other event name
\* it opens no transaction and leaves the bucket as it is.
C25_EventsMappedOrIgnored ==
    /\ [](\A w \in Writers :
            LET ev == tx[w].event
                created == Len(ev.name) >= 2 /\ ev.name[1] = "ObjectCreated"
                removed == Len(ev.name) >= 2 /\ ev.name[1] = "ObjectRemoved"
            IN /\ tx[w].pc # "idle" => (created \/ removed)
               /\ (tx[w].called /\ tx[w].pc \in {"body", "exit"}) =>
                     /\ tx[w].lastOp.kind = (IF created THEN "add" ELSE "remove")
                     /\ tx[w].lastOp.file = ev.key.name[1]
               /\ tx[w].pc \in {"exit", "publishing", "deleting", "invalidating",
                                 "closed"} => tx[w].called)
    /\ [][\A w \in Writers :
            LET ev == tx[w].event
                created == Len(ev.name) >= 2 /\ ev.name[1] = "ObjectCreated"
                removed == Len(ev.name) >= 2 /\ ev.name[1] = "ObjectRemoved"
            IN /\ (ev # NoEvent /\ ~created /\ ~removed) =>
                     /\ bucket' = bucket /\ ntx' = ntx
                     /\ tx'[w] = [tx[w] EXCEPT !.event = NoEvent, !.ignored = TRUE]
               /\ (ev # NoEvent /\ (created \/ removed) /\ tx[w].pc = "idle") =>
                     (ntx' = ntx + 1 /\ tx'[w].pc # "idle")
               /\ (tx[w].pc = "body" /\ tx[w].called) => tx'[w].pc = "exit"]_vars
\* C25 witness: an unsupported event was ignored after an ObjectRemoved event
\* removed the package an ObjectCreated event had added: the bucket holds an
\* index without package.
C25_Witness ==
    \E w \in Writers :
        /\ ntx = 2 /\ nops = 2
        /\ tx[w].pc = "idle" /\ tx[w].ignored /\ tx[w].event = NoEvent
        /\ REPOMD \in DOMAIN bucket /\ ListedAny(bucket) = {}
        /\ DstKey("a") \notin DOMAIN bucket

\* C26: find_repository has these outcomes and no side effect: without a
\* base URL it raises ValueError whatever the file name; with one, a file
\* name that does not match the NEVRA pattern raises InvalidPackage; a
\* matching name whose release has no dist tag raises InvalidPackage when the
\* template contains $releasever and resolves when it does not.
C26_FindRepositoryOutcomes ==
    /\ [](\A w \in Writers :
            LET r == tx[w].found
                b == Basename(r.filename)
                n == Len(b)
                \* <name>-<version>-<release>.<arch>.rpm, any part may be empty
                matches ==
                    /\ n >= 2 /\ b[n - 1] = "." /\ b[n] = "rpm"
                    /\ \E i, j, k \in 1..(n - 2) :
                          i < j /\ j < k /\ b[i] = "-" /\ b[j] = "-" /\ b[k] = "."
                nodist == FirstIndex(ParseNevra(b).release, ".") = 0
                needs == \E i \in DOMAIN r.baseurl.template :
                            r.baseurl.template[i] = "$releasever"
            IN r.asked =>
                 /\ ~r.baseurl.set => r.raised = "ValueError"
                 /\ (r.baseurl.set /\ ~matches) => r.raised = "InvalidPackage"
                 /\ (r.baseurl.set /\ matches /\ nodist /\ needs) =>
                        r.raised = "InvalidPackage"
                 /\ (r.baseurl.set /\ matches /\ nodist /\ ~needs) =>
                        (r.raised = "none" /\ r.url # <<>>)
                 /\ r.raised # "none" => r.url = <<>>)
    /\ [][\A w \in Writers :
            (~tx[w].found.asked /\ tx'[w].found.asked) =>
               /\ bucket' = bucket /\ ntx' = ntx /\ nops' = nops
               /\ tx'[w] = [tx[w] EXCEPT !.found = tx'[w].found]]_vars
\* C26 witness: a name without dist tag resolved under a template without
\* $releasever, with the arch of the name in the URL.
C26_Witness ==
    \E w \in Writers :
        LET r == tx[w].found
        IN /\ r.asked /\ r.raised = "none"
           /\ r.filename = <<"d", "/", "p", "-", "1", "-", "1", ".", "p", ".", "rpm">>
           /\ r.url = << <<"s3://bucket/">>, <<"p">> >>

\* The transaction of writer w is over: closed, or failed at open.
Over(w) == tx[w].pc \in {"closed", "failed"}

\* C27 (as claimed): when two transactions ran at the same time on one
\* repository, the final top-level index is the whole index one of them
\* wrote, and every metadata file it references is in the bucket.
C27_FinalIndexComplete ==
    (\A w \in Writers : Over(w)) =>
        /\ REPOMD \in DOMAIN bucket
        /\ (\E w \in Writers : tx[w].published) =>
               (\E w \in Writers : tx[w].published /\ bucket[REPOMD] = tx[w].wrote)
        /\ IndexRefs(bucket) \subseteq DOMAIN bucket
\* C27 (amended): the final top-level index is the whole index one of them
\* wrote (the last one uploaded); a metadata file it references is in the
\* bucket unless the other transaction had it in its removed set.
C27_LastWriterWins ==
    (\A w \in Writers : Over(w)) =>
        /\ REPOMD \in DOMAIN bucket
        /\ (\E w \in Writers : tx[w].published) =>
               \E w \in Writers :
                  /\ tx[w].published /\ bucket[REPOMD] = tx[w].wrote
                  /\ \A k \in IndexRefs(bucket) \ DOMAIN bucket :
                        \E o \in Writers \ {w} : k \in tx[o].removed
        /\ (\A w \in Writers : ~tx[w].published) =>
               IndexRefs(bucket) \subseteq DOMAIN bucket
\* C27 witness: both transactions published and closed, and the final index
\* references a file that is not in the bucket.
C27_Witness ==
    /\ \A w \in Writers : Closed(w) /\ tx[w].published
    /\ IndexRefs(bucket) \ DOMAIN bucket # {}

\* Observer: every index file the Release in bucket b lists under an
\* algorithm is in b at its plain location and at its by-hash location, with
\* the same content.
ByHashPublished(b) ==
    /\ RELEASE \in DOMAIN b
    /\ \A alg \in DebAlgorithms : \A e \in b[RELEASE].sums[alg] :
          LET plain == DistKey(e.name[1], e.name[2])
              byhash == ByHashKey(e.name[1], alg, e.digest)
          IN /\ plain \in DOMAIN b
             /\ byhash \in DOMAIN b
             /\ b[byhash] = b[plain]
             /\ DebDigest(alg, b[plain]) = e.digest

\* C28: after a successful DEB transaction, every index file listed in
\* Release under each digest algorithm has its by-hash object
\* dists/<codename>/<dir>/by-hash/<ALG>/<digest> in the bucket, with the same
\* bytes as the object at the plain location.
C28_ByHashObjectsMatch ==
    \A w \in Writers :
        Closed(w) /\ tx[w].exc = "none" => ByHashPublished(bucket)
\* C28 witness: a transaction on an existing repository changed the index
\* (old by-hash files deleted, new ones written) and closed without error.
C28_Witness ==
    /\ Closed(1) /\ tx[1].exc = "none" /\ tx[1].loadedIndex
    /\ \E k \in tx[1].deleted : k.kind = "by-hash"
    /\ \E k \in tx[1].written : k.kind = "by-hash"
    /\ \E e \in bucket[RELEASE].sums["SHA1"] : e.size > 0

\* C29: without signing key, InRelease has the same bytes as Release after
\* every successful DEB transaction (empty initialisation, add, remove).
C29_InReleaseEqualsRelease ==
    \A w \in Writers :
        Closed(w) /\ tx[w].exc = "none" /\ tx[w].gpg = NoKey =>
            /\ RELEASE \in DOMAIN bucket
            /\ INRELEASE \in DOMAIN bucket
            /\ bucket[INRELEASE] = bucket[RELEASE]
\* C29 witness: a transaction without key removed a package from a
\* repository that a signed transaction had published, and closed.
C29_Witness ==
    /\ Closed(1) /\ tx[1].exc = "none" /\ tx[1].gpg = NoKey
    /\ tx[1].loadedIndex /\ RELEASE_GPG \in DOMAIN bucket
    /\ \E k \in tx[1].deleted : k.kind = "pool"
    /\ bucket[RELEASE].date = 2

\* Observers of the scope exit of writer w.
\* _save is over: no upload is pending, what it published is in the bucket
\* and what was scheduled for deletion is not.
SaveDone(w) ==
    /\ tx[w].pc \notin {"idle", "loading", "body", "exit", "publishing", "deleting"}
    /\ tx[w].pending = EmptyFn
    /\ tx[w].removed \cap DOMAIN bucket = {}
    /\ (tx[w].modified \ tx[w].removed) \subseteq DOMAIN bucket
    /\ tx[w].published => (REPOMD \in DOMAIN bucket /\ bucket[REPOMD] = tx[w].wrote)
\* invalidate_cache was called if there was a changed path, and has returned.
InvalidationDone(w) ==
    /\ tx[w].changed # EmptyBag => tx[w].invalidated
    /\ (tx[w].invalidated /\ tx[w].dist) =>
          (tx[w].resp.code # "none" /\ Outcome(tx[w].resp) = "return")

C31_ContentsUpdate ==
    \A w \in Writers :
        LET c == tx[w].contents
            absent == {n \in ContentsNames :
                         \A i \in DOMAIN c.table : ~ListHas(c.table[i].pkgs, n)}
        IN /\ c.calls > 0 =>
                /\ c.returned <=> (c.table # c.before)
                /\ UpdateContentsEntries(c.name, c.files, c.table)
                      = [changed |-> FALSE, contents |-> c.table]
           /\ \A n \in absent :
                /\ UpdateContentsEntries(n, {}, c.table)
                      = [changed |-> FALSE, contents |-> c.table]
                /\ \A files \in SUBSET ContentsPaths :
                      UpdateContentsEntries(
                          n, {}, UpdateContentsEntries(n, files, c.table).contents)
                        = [changed |-> files # {}, contents |-> c.table]
\* C31 witness: a package was added to a table where another package
\* provides one of its files, then removed, and the table is as it was.
C31_Witness ==
    LET c == tx[1].contents
    IN /\ c.calls = 2 /\ c.returned /\ c.files = {} /\ c.name = "y"
       /\ Len(c.table) = 2 /\ Len(c.before) = 3
       /\ \E i \in DOMAIN c.before : c.before[i].pkgs = <<"x", "y">>
       /\ \A i \in DOMAIN c.table : c.table[i].pkgs = <<"x">>

\* C32: the key add looks up to detect an indexed package (the file name
\* without .rpm) is the key under which add inserts the record (the NVRA),
\* for every file name add accepts: after an add that raised nothing, a
\* lookup of the file's name finds the record, so that a second add of the
\* package raises PackageAlreadyExists.
C32_DetectionKeyIsInsertionKey ==
    \A w \in Writers :
        (tx[w].lastOp.kind = "add" /\ tx[w].lastOp.raised = "none"
           /\ tx[w].pc = "body") =>
              /\ Stem(tx[w].lastOp.file) = Nvra(tx[w].lastOp.file)
              /\ Stem(tx[w].lastOp.file) \in DictKeys(tx[w].pkgs["primary"])

\* C33: a package is listed in the top-level index published at scope exit
\* only if its file is at the repository destination: when put_file or the
\* source removal failed inside add, the index published afterwards does not
\* list the package.
C33_ListedOnlyIfUploaded ==
    \A w \in Writers :
        (Closed(w) /\ tx[w].published) =>
            /\ \A f \in Listed(bucket) : DstKey(f) \in DOMAIN bucket
            /\ tx[w].exc = "ClientError" => Listed(bucket) = tx[w].atOpen

\* C34: with a single writer, at every instant, each package listed in the
\* top-level index that is in the bucket has its file at the repository
\* destination.
C34_ListedPackagesPresent ==
    \A f \in Listed(bucket) : DstKey(f) \in DOMAIN bucket

\* C35: after close, for every package an add or a remove of the transaction
\* named, whatever the order of the calls, the package file is at its
\* repository destination if and only if the published index lists the
\* package.
C35_FilePresentIffListed ==
    \A w \in Writers : \A f \in Files :
        (Closed(w) /\ DstKey(f) \in tx[w].modified \cup tx[w].removed) =>
            (DstKey(f) \in DOMAIN bucket <=> f \in Listed(bucket))

\* The files the top-level index a transaction produced references.
WroteRefs(w) ==
    IF tx[w].published
    THEN {tx[w].wrote.records[ty].href : ty \in RecordTypes} ELSE {}

\* C36: after save, no path the new top-level index references is in the
\* removed set, and the transaction deletes no file its new index references.
C36_NewIndexFilesNotRemoved ==
    \A w \in Writers :
        /\ WroteRefs(w) \cap tx[w].removed = {}
        /\ WroteRefs(w) \cap tx[w].deleted = {}
\* C36 witness: a transaction on an existing repository published an index
\* that keeps files of the previous one under their names and replaces
\* others, deleted the replaced ones and closed.
C36_Witness ==
    /\ Closed(1) /\ tx[1].published
    /\ WroteRefs(1) \cap tx[1].prevRefs # {}
    /\ tx[1].prevRefs \cap tx[1].deleted # {}
    /\ WroteRefs(1) \subseteq DOMAIN bucket

\* C37: when the handler has processed the ObjectRemoved event of an object
\* outside the repository destination (the source object an earlier add moved
\* into the repository and deleted), the package that was listed in the index
\* is still listed and its file is still at the repository destination.
C37_SourceRemovalKeepsPackage ==
    \A w \in Writers :
        LET ev == tx[w].event
        IN (/\ Closed(w)
            /\ ev # NoEvent
            /\ ActionOf(ev.name) = "remove"
            /\ ev.key.kind = "src"
            /\ ev.key \notin DOMAIN bucket
            /\ ev.key.name[1] \in tx[w].atOpen) =>
               /\ ev.key.name[1] \in Listed(bucket)
               /\ DstKey(ev.key.name[1]) \in DOMAIN bucket

\* The handler of writer w served an ObjectRemoved event for a package that
\* was not indexed and had no file at the repository destination.
RemovedUnknown(w) ==
    LET ev == tx[w].event
    IN /\ Closed(w)
       /\ ev # NoEvent
       /\ ActionOf(ev.name) = "remove"
       /\ tx[w].called
       /\ ev.key.name[1] \notin tx[w].atOpen
       /\ DstKey(ev.key.name[1]) \notin (DOMAIN bucket) \cup tx[w].deleted

\* C38 as claimed: processing an ObjectRemoved event for a package that is
\* neither indexed nor at the repository destination issues no put and no
\* delete on the bucket.
C38_UnknownRemovalTouchesNothing ==
    \A w \in Writers :
        RemovedUnknown(w) => (tx[w].written = {} /\ tx[w].deleted = {})
\* C38 amended: the same, when the repository has a top-level index (one the
\* handler published): the regenerated metadata files have the names of the
\* loaded ones, nothing is uploaded, and the deletion of the absent file
\* deletes nothing, so the handler emits no further storage event.
C38_UnknownRemovalOnIndexTouchesNothing ==
    \A w \in Writers :
        (RemovedUnknown(w) /\ tx[w].loadedIndex) =>
            /\ tx[w].written = {} /\ tx[w].deleted = {}
            /\ ~tx[w].published
            /\ tx[w].removed = {DstKey(tx[w].event.key.name[1])}
\* C38 witness: the handler closed after such an event, for the source
\* object of a package, on a repository with an index.
C38_Witness ==
    /\ RemovedUnknown(1) /\ tx[1].loadedIndex
    /\ tx[1].event.key = SrcKey("a")
    /\ tx[1].removed = {DstKey("a")}
    /\ REPOMD \in DOMAIN bucket

\* C39: after a transaction that closed without error, signed or not, a
\* detached signature of the top-level index that is in the bucket was made
\* over the top-level index that is in the bucket.
C39_NoStaleSignature ==
    \A w \in Writers :
        (Closed(w) /\ tx[w].exc = "none" /\ REPOMD_ASC \in DOMAIN bucket) =>
            /\ REPOMD \in DOMAIN bucket
            /\ bucket[REPOMD_ASC].over = bucket[REPOMD]

====
